---- MODULE Spec2Model ----
(***************************************************************************)
(* Neighbor discovery (Spark) of the Open/R routing daemon.                *)
(*                                                                         *)
(* One Spark instance is modelled: its interface database, the legacy      *)
(* neighbor table (neighbors_), the Spark2 neighbor table                  *)
(* (spark2Neighbors_), the set of allocated segment-routing labels, the    *)
(* local sequence number and the events written to the report socket.      *)
(* Every handler of the event loop is one action.                          *)
(***************************************************************************)
EXTENDS Bags, FiniteSets, Integers, Sequences, TLC

(***************************************************************************)
(* Bounds of the model.                                                    *)
(***************************************************************************)
\* sequence numbers carried in packets range over 0..MaxSeq
MaxSeq == 1
\* the local sequence number is counted up to this value
MaxMySeq == 2
\* interface indexes handed in by the interface database are 1..MaxIfIndex
MaxIfIndex == 2
\* numRecvRestarting is counted up to this value
MaxRecvRestarting == 2
\* labels leaked below the local range by failed allocations
MaxLeak == 1
\* Constants::kSrLocalRange, scaled down to two labels
kSrLocalRangeFirst == 4
kSrLocalRangeSecond == 5
\* Constants::kMaxAllowedPps, scaled down
kMaxAllowedPps == 2
\* Constants::kNumTimeSeries, scaled down
kNumTimeSeries == 2
\* the duration of a time series, one second, in ticks of the clock
OneSecond == 2
\* the clock runs from 0 to MaxNow
MaxNow == 4

Ifaces == {"if1", "if2"}
Nodes == {"n1", "n2"}
myNodeName_ == "me"
myDomainName_ == "d1"
Domains == {"d1", "d2"}
\* kVersion_.lowestSupportedVersion
lowestSupportedVersion == 2
Versions == {1, 2}
AreaIds == {"a1", "a2"}
\* folly::none
None == "none"

SeqNums == 0 .. MaxSeq

(***************************************************************************)
(* SparkNeighState and SparkNeighEvent, in the order of the enums (the     *)
(* order indexes stateMap_).                                               *)
(***************************************************************************)
IDLE == "IDLE"
WARM == "WARM"
NEGOTIATE == "NEGOTIATE"
ESTABLISHED == "ESTABLISHED"
RESTART == "RESTART"
SparkNeighState == <<IDLE, WARM, NEGOTIATE, ESTABLISHED, RESTART>>
States == {SparkNeighState[k] : k \in 1 .. Len(SparkNeighState)}

HELLO_RCVD_INFO == "HELLO_RCVD_INFO"
HELLO_RCVD_NO_INFO == "HELLO_RCVD_NO_INFO"
HELLO_RCVD_RESTART == "HELLO_RCVD_RESTART"
HEARTBEAT_RCVD == "HEARTBEAT_RCVD"
HANDSHAKE_RCVD == "HANDSHAKE_RCVD"
HEARTBEAT_TIMER_EXPIRE == "HEARTBEAT_TIMER_EXPIRE"
NEGOTIATE_TIMER_EXPIRE == "NEGOTIATE_TIMER_EXPIRE"
GR_TIMER_EXPIRE == "GR_TIMER_EXPIRE"
SparkNeighEvent ==
  <<HELLO_RCVD_INFO, HELLO_RCVD_NO_INFO, HELLO_RCVD_RESTART, HEARTBEAT_RCVD,
    HANDSHAKE_RCVD, HEARTBEAT_TIMER_EXPIRE, NEGOTIATE_TIMER_EXPIRE,
    GR_TIMER_EXPIRE>>
FsmEvents == {SparkNeighEvent[k] : k \in 1 .. Len(SparkNeighEvent)}

IndexOf(seq, x) == CHOOSE k \in 1 .. Len(seq) : seq[k] = x

\* the result of a failed CHECK in getNextState
UNEXPECTED == "UNEXPECTED"

\* a faulty table: a hello with info takes WARM straight to ESTABLISHED
stateMap_WarmToEstablished ==
  << <<WARM, WARM, None, None, None, None, None, None>>,
     <<ESTABLISHED, None, None, None, None, None, None, None>>,
     <<None, None, None, None, ESTABLISHED, None, WARM, None>>,
     <<None, IDLE, RESTART, ESTABLISHED, None, IDLE, None, None>>,
     <<ESTABLISHED, None, None, None, None, None, None, IDLE>> >>

\* a faulty table: the entry of ESTABLISHED for HELLO_RCVD_RESTART is missing
stateMap_NoRestart ==
  << <<WARM, WARM, None, None, None, None, None, None>>,
     <<NEGOTIATE, None, None, None, None, None, None, None>>,
     <<None, None, None, None, ESTABLISHED, None, WARM, None>>,
     <<None, IDLE, None, ESTABLISHED, None, IDLE, None, None>>,
     <<ESTABLISHED, None, None, None, None, None, None, IDLE>> >>

stateMap_ ==
  << \* index 0 - IDLE
     <<WARM, WARM, None, None, None, None, None, None>>,
     \* index 1 - WARM
     <<NEGOTIATE, None, None, None, None, None, None, None>>,
     \* index 2 - NEGOTIATE
     <<None, None, None, None, ESTABLISHED, None, WARM, None>>,
     \* index 3 - ESTABLISHED
     <<None, IDLE, RESTART, ESTABLISHED, None, IDLE, None, None>>,
     \* index 4 - RESTART
     <<ESTABLISHED, None, None, None, None, None, None, IDLE>> >>

\* CHECK(nextState.hasValue()) fails for an undefined pair
getNextState(currState, event) ==
  LET nextState ==
        stateMap_[IndexOf(SparkNeighState, currState)]
                 [IndexOf(SparkNeighEvent, event)]
  IN  IF nextState = None THEN UNEXPECTED ELSE nextState


(***************************************************************************)
(* State of one Spark instance.                                            *)
(***************************************************************************)
VARIABLES
  enableSpark2_,            \* constructor argument, fixed afterwards
  enableV4_,                \* constructor argument, fixed afterwards
  enableSubnetValidation_,  \* constructor argument, fixed afterwards
  areas_,                   \* optional set of local areas, fixed afterwards
  interfaceDb_,             \* ifName -> ifIndex, for the tracked interfaces
  ifNameToHelloTimers_,     \* the interfaces that have a hello timer
  neighbors_,               \* ifName -> (nodeName -> Neighbor)
  spark2Neighbors_,         \* ifName -> (nodeName -> Spark2Neighbor)
  allocatedLabels_,         \* set of labels handed out
  mySeqNum_,                \* sequence number of the next hello sent
  reported,                 \* bag of the events the last handler wrote to
                            \* reportSocket_
  invalidKeepalive,         \* the last handler counted its packet under
                            \* spark.invalid_keepalive.*
  aborted,                  \* a CHECK failed: the process is gone
  visited,                  \* <<ifName, nodeName>> -> states the Spark2 entry
                            \* went through since it was created (history)
  sent,                     \* the hello packets the last handler sent, in
                            \* the order of sending
  stopped,                  \* ZmqEventLoop::stop() has been called
  now,                      \* std::chrono::steady_clock::now(), in ticks
  timeSeriesVector_,        \* index -> times of the packets counted by the
                            \* BucketedTimeSeries of that index
  processed,                \* whether shouldProcessHelloPacket let the last
                            \* packet through
  tstamps,                  \* the four timestamps of the last hello whose
                            \* RTT was looked at, in microseconds
  stepDetectorAdded,        \* whether that hello added a value to
                            \* neighbor.stepDetector
  rttLatest,                \* neighbor.rttLatest, in microseconds
  persistedKeyVals_,        \* area -> (key -> the value the client keeps in
                            \* the KvStore, or None)
  keyTtlBackoffs_,          \* area -> (key -> the TTL update of a key with
                            \* a finite TTL and whether its backoff allows
                            \* a try, or None)
  keysToAdvertise_,         \* area -> keys whose value is to be advertised
  backoffs_,                \* key -> whether the backoff of the key allows
                            \* a try, or None
  keyCallbacks_,            \* keys with a callback subscribed
  kvCallback_,              \* whether the callback for every key is set
                            \* (setKvCallback is not called here)
  invoked,                  \* the callbacks the last handler invoked
  setRequests,              \* the key-values the last handler handed to the
                            \* KvStore
  ignored,                  \* the keys whose TTL update the last handler
                            \* ignored
  kvAborted,                \* an exception left a handler of the client
  advertiseKeyValsTimer_,   \* whether advertiseKeyValsTimer_ is scheduled
  checkPersistKeyTimer_,    \* whether checkPersistKeyTimer_ is scheduled
  kvStore_,                 \* the KvStore of the client: key -> the record
                            \* it holds in the default area, or Missing
  ttlSent,                  \* key -> (version -> the highest ttlVersion of
                            \* the TTL updates handed to the KvStore so far,
                            \* 0 when there was none) (history)
  kvStoreDb,                \* the KvStore: key -> the record it holds, or
                            \* Missing
  publishers,               \* the number of publishers of the KvStore
                            \* stream, one per subscriber
  received,                 \* the publications the subscriber received, in
                            \* the order of delivery
  prefixMap_,               \* PrefixManager: prefix -> the entry the node
                            \* advertises, or Missing
  reference,                \* the entries the node advertises by the
                            \* semantics the operations are given (history)
  mplsAction,               \* the thrift::MplsAction built last, or Missing
  nextHops,                 \* the next hops built for the next route
  mplsRoute,                \* the thrift::MplsRoute built last, or Missing
  fatal,                    \* a CHECK failed: the process is aborted
  nbrState,                 \* two nodes on one link: node -> the state of
                            \* its Spark2 neighbor entry of the other node
  wire,                     \* bag of the handshake messages in flight
                            \* between the two
  quiet,                    \* no hello arrives and no timer fires any more
  answers,                  \* the handshakes sent in answer to a handshake
                            \* since then, up to MaxAnswers (history)
  lVector,                  \* the thrift::MetricVector compared, as the
                            \* caller holds it
  rVector,                  \* the thrift::MetricVector it is compared with
  compareResult             \* the CompareResult returned last, or None

cfgVars == <<enableSpark2_, enableV4_, enableSubnetValidation_, areas_>>
vars ==
  <<enableSpark2_, enableV4_, enableSubnetValidation_, areas_, interfaceDb_,
    ifNameToHelloTimers_,
    neighbors_, spark2Neighbors_, allocatedLabels_, mySeqNum_, reported,
    invalidKeepalive, aborted, visited, sent, stopped, now, timeSeriesVector_, processed,
    tstamps, stepDetectorAdded, rttLatest, persistedKeyVals_,
    keyTtlBackoffs_, keysToAdvertise_, backoffs_, keyCallbacks_, kvCallback_,
    invoked, setRequests, ignored, kvAborted, advertiseKeyValsTimer_,
    checkPersistKeyTimer_, kvStore_, ttlSent, kvStoreDb, publishers,
    received, prefixMap_, reference, mplsAction, nextHops, mplsRoute, fatal,
    nbrState, wire, quiet, answers, lVector, rVector, compareResult>>

\* the state of neighbor discovery proper
sparkVars ==
  <<enableSpark2_, enableV4_, enableSubnetValidation_, areas_, interfaceDb_,
    ifNameToHelloTimers_,
    neighbors_, spark2Neighbors_, allocatedLabels_, mySeqNum_, reported,
    invalidKeepalive, aborted, visited, sent, stopped>>
\* the state of the rate limiter
rateVars == <<now, timeSeriesVector_, processed>>
\* what the handlers of neighbor discovery leave alone
\* the state of the RTT measurement of one neighbor
rttVars == <<tstamps, stepDetectorAdded, rttLatest>>
\* the state of the KvStore client
kvVars ==
  <<persistedKeyVals_, keyTtlBackoffs_, keysToAdvertise_, backoffs_,
    keyCallbacks_, kvCallback_, invoked, setRequests, ignored, kvAborted,
    advertiseKeyValsTimer_, checkPersistKeyTimer_, kvStore_, ttlSent>>
\* the KvStore of the client and the timer that checks it
checkVars == <<kvStore_, checkPersistKeyTimer_>>
\* the state of the KvStore and of its subscriber
storeVars == <<kvStoreDb, publishers, received>>
\* the state of the PrefixManager
prefixVars == <<prefixMap_, reference>>
\* the values built by the MPLS helpers of Util.h
mplsVars == <<mplsAction, nextHops, mplsRoute, fatal>>
\* the two nodes that exchange handshakes
shakeVars == <<nbrState, wire, quiet, answers>>
\* the metric vectors compared
metricVars == <<lVector, rVector, compareResult>>
extVars ==
  <<rateVars, rttVars, kvVars, storeVars, prefixVars, mplsVars, shakeVars,
    metricVars>>

(***************************************************************************)
(* std::unordered_map as a function with a finite domain.                  *)
(***************************************************************************)
EmptyMap == [x \in {} |-> None]
Put(f, k, v) == [x \in DOMAIN f \cup {k} |-> IF x = k THEN v ELSE f[x]]
Erase(f, k) == [x \in DOMAIN f \ {k} |-> f[x]]
Has(f, k) == k \in DOMAIN f

(***************************************************************************)
(* Transport v4 addresses: "a" lies in the v4 subnet of the receiving      *)
(* interface, "x" lies outside of it, "none" is an address that does not   *)
(* parse (the sender has no v4 address).                                   *)
(***************************************************************************)
V4Addrs == {"a", "x", "none"}

\* SparkNeighborEventType
NEIGHBOR_UP == "NEIGHBOR_UP"
NEIGHBOR_DOWN == "NEIGHBOR_DOWN"
NEIGHBOR_RESTARTING == "NEIGHBOR_RESTARTING"
NEIGHBOR_RESTARTED == "NEIGHBOR_RESTARTED"

\* the event handed to reportSocket_; table is "legacy" or "spark2", the
\* neighbor table the reporting handler works on
SparkNeighborEvent(eventType, ifName, nodeName, label, area, table) ==
  [eventType |-> eventType, ifName |-> ifName, nodeName |-> nodeName,
   label |-> label, area |-> area, table |-> table]

NoEvents == EmptyBag
OneEvent(e) == SetToBag({e})

(***************************************************************************)
(* Label allocation.                                                       *)
(***************************************************************************)
RECURSIVE scanDown(_, _)
\* while (!allocatedLabels_.insert(label).second) label--;
scanDown(label, allocated) ==
  IF label \in allocated THEN scanDown(label - 1, allocated) ELSE label

\* a faulty allocation: the preferred label is handed out even when taken
getNewLabelForIfaceNoScan(ifIndex, allocated) ==
  [label |-> kSrLocalRangeFirst + ifIndex,
   allocated |-> allocated \cup {kSrLocalRangeFirst + ifIndex},
   threw |-> FALSE]

\* returns the label, the allocated set afterwards, and whether the call
\* threw "Ran out of local label allocation space."
getNewLabelForIface(ifIndex, allocated) ==
  LET preferred == kSrLocalRangeFirst + ifIndex
      fromBack == scanDown(kSrLocalRangeSecond, allocated)
  IN  IF preferred \notin allocated
        THEN [label |-> preferred, allocated |-> allocated \cup {preferred},
              threw |-> FALSE]
        ELSE [label |-> fromBack, allocated |-> allocated \cup {fromBack},
              threw |-> fromBack < kSrLocalRangeFirst]

(***************************************************************************)
(* Packet validation.                                                      *)
(***************************************************************************)
SUCCESS == "SUCCESS"
FAILURE == "FAILURE"
NEIGHBOR_RESTART == "NEIGHBOR_RESTART"

\* a faulty check: the domain is not compared
sanityCheckHelloPktNoDomain(domainName, neighborName, remoteVersion) ==
  IF neighborName = myNodeName_ THEN FAILURE
  ELSE IF remoteVersion < lowestSupportedVersion THEN FAILURE
  ELSE SUCCESS

sanityCheckHelloPkt(domainName, neighborName, remoteVersion) ==
  IF neighborName = myNodeName_ THEN FAILURE
  ELSE IF domainName # myDomainName_ THEN FAILURE
  ELSE IF remoteVersion < lowestSupportedVersion THEN FAILURE
  ELSE SUCCESS

\* whether the sanity check drops a hello
sanityFailed(pkt) ==
  sanityCheckHelloPkt(pkt.domainName, pkt.nodeName, pkt.version) = FAILURE

validateV4AddressSubnet(neighV4Addr) ==
  IF neighV4Addr = "none" THEN FAILURE
  ELSE IF neighV4Addr # "a" THEN FAILURE
  ELSE SUCCESS

\* folly::Optional of a set of areas
NoAreas == [hasValue |-> FALSE, value |-> {}]
SomeAreas(S) == [hasValue |-> TRUE, value |-> S]

\* Expected<Optional<area>, Unit>: error, or the common area (None when one
\* of the two sides has no area set)
findCommonArea(adjAreas) ==
  IF areas_.hasValue /\ adjAreas.hasValue
    THEN LET commonArea == {area \in areas_.value : area \in adjAreas.value}
         IN  IF Cardinality(commonArea) = 0 THEN [error |-> TRUE, area |-> None]
             ELSE IF Cardinality(commonArea) > 1
               THEN [error |-> TRUE, area |-> None]
             ELSE [error |-> FALSE, area |-> CHOOSE a \in commonArea : TRUE]
    ELSE [error |-> FALSE, area |-> None]


(***************************************************************************)
(* Legacy hello processing.                                                *)
(***************************************************************************)
\* Spark::Neighbor as constructed by validateHelloPacket
Neighbor(v4, label, seqNum) ==
  [label |-> label, seqNum |-> seqNum, isAdjacent |-> FALSE,
   holdTimer |-> FALSE, numRecvRestarting |-> 0, v4 |-> v4]

THROWN == "THROWN"

\* result: the validation result (THROWN when getNewLabelForIface threw),
\* the neighbors of ifName and the allocated labels afterwards
validateHelloPacket(ifName, pkt) ==
  LET ifNeighbors == neighbors_[ifName]
      neighborName == pkt.nodeName
      unchanged(result) ==
        [result |-> result, neighbors |-> ifNeighbors,
         allocated |-> allocatedLabels_]
  IN  IF sanityCheckHelloPkt(pkt.domainName, neighborName, pkt.version)
           = FAILURE
        THEN unchanged(FAILURE)
      ELSE IF /\ enableV4_ /\ enableSubnetValidation_
              /\ validateV4AddressSubnet(pkt.v4) = FAILURE
        THEN unchanged(FAILURE)
      ELSE IF ~Has(ifNeighbors, neighborName)
        THEN LET new ==
                   getNewLabelForIface(interfaceDb_[ifName], allocatedLabels_)
             IN  IF new.threw
                   THEN [result |-> THROWN, neighbors |-> ifNeighbors,
                         allocated |-> new.allocated]
                   ELSE [result |-> SUCCESS,
                         neighbors |->
                           Put(ifNeighbors, neighborName,
                               Neighbor(pkt.v4, new.label, pkt.seqNum)),
                         allocated |-> new.allocated]
      ELSE LET neighbor == ifNeighbors[neighborName]
           IN  IF pkt.seqNum <= neighbor.seqNum
                 THEN [result |-> NEIGHBOR_RESTART,
                       neighbors |->
                         Put(ifNeighbors, neighborName,
                             [neighbor EXCEPT !.v4 = pkt.v4,
                                              !.seqNum = pkt.seqNum]),
                       allocated |-> allocatedLabels_]
                 ELSE [result |->
                         IF enableV4_ /\ pkt.v4 # neighbor.v4
                           THEN NEIGHBOR_RESTART ELSE SUCCESS,
                       neighbors |->
                         Put(ifNeighbors, neighborName,
                             [neighbor EXCEPT !.seqNum = pkt.seqNum]),
                       allocated |-> allocatedLabels_]

\* step 3 of processHelloPacket: the neighbors of ifName, the allocated
\* labels and the reported events afterwards
processHelloPacket(ifName, pkt) ==
  LET validation == validateHelloPacket(ifName, pkt)
      validationResult == validation.result
      commonArea == findCommonArea(pkt.areas)
      adjArea == commonArea.area
      nodeName == pkt.nodeName
      neighbor == validation.neighbors[nodeName]
      isAdjacent == neighbor.isAdjacent
      foundSelf ==
        /\ Has(pkt.neighborInfos, myNodeName_)
        /\ pkt.neighborInfos[myNodeName_] < mySeqNum_
      event(type, area) ==
        OneEvent(SparkNeighborEvent(type, ifName, nodeName, neighbor.label,
                                    area, "legacy"))
      result(nbr, events) ==
        [neighbors |-> Put(validation.neighbors, nodeName, nbr),
         allocated |-> validation.allocated, reported |-> events]
  IN  IF validationResult \in {FAILURE, THROWN} \/ commonArea.error
        THEN [neighbors |-> validation.neighbors,
              allocated |-> validation.allocated, reported |-> NoEvents]
      ELSE IF pkt.restarting
        THEN result([neighbor EXCEPT !.numRecvRestarting = @ + 1],
                    IF neighbor.numRecvRestarting + 1 > 1
                      THEN NoEvents
                      ELSE event(NEIGHBOR_RESTARTING, adjArea))
      ELSE IF isAdjacent /\ validationResult = NEIGHBOR_RESTART
        THEN result([neighbor EXCEPT !.numRecvRestarting = 0],
                    event(NEIGHBOR_RESTARTED, adjArea))
      ELSE IF foundSelf /\ isAdjacent
        THEN result([neighbor EXCEPT !.holdTimer = TRUE], NoEvents)
      ELSE IF ~foundSelf /\ ~isAdjacent
        THEN result(neighbor, NoEvents)
      ELSE IF foundSelf /\ ~isAdjacent
        THEN result([neighbor EXCEPT !.numRecvRestarting = 0,
                                     !.isAdjacent = TRUE,
                                     !.holdTimer = TRUE],
                    event(NEIGHBOR_UP, adjArea))
      ELSE result([neighbor EXCEPT !.isAdjacent = FALSE,
                                   !.holdTimer = FALSE],
                  event(NEIGHBOR_DOWN, None))


(***************************************************************************)
(* Spark2 message processing.                                              *)
(***************************************************************************)
\* Spark::Spark2Neighbor as constructed: state IDLE, no timer, and nothing
\* learnt from a handshake (transportAddressV4 stands for the ports, the
\* transport addresses and the hold times, which are assigned together)
Spark2Neighbor(label, seqNum) ==
  [label |-> label, seqNum |-> seqNum, state |-> IDLE,
   negotiateTimer |-> FALSE, negotiateHoldTimer |-> FALSE,
   transportAddressV4 |-> "none"]

\* the Spark2 neighbors of ifName, the allocated labels, the reported events
\* afterwards, and whether a CHECK failed
processHelloMsg(ifName, helloMsg) ==
  LET ifNeighbors == spark2Neighbors_[ifName]
      neighborName == helloMsg.nodeName
      neighborInfos == helloMsg.neighborInfos
      remoteSeqNum == helloMsg.seqNum
      result(nbrs, allocated, events, failed) ==
        [neighbors |-> nbrs, allocated |-> allocated, reported |-> events,
         aborted |-> failed]
      nothing == result(ifNeighbors, allocatedLabels_, NoEvents, FALSE)
  IN  IF sanityCheckHelloPkt(helloMsg.domainName, neighborName,
                             helloMsg.version) = FAILURE
        THEN nothing
      ELSE IF ~Has(ifNeighbors, neighborName)
        THEN LET new ==
                   getNewLabelForIface(interfaceDb_[ifName], allocatedLabels_)
                 nextState == getNextState(IDLE, HELLO_RCVD_NO_INFO)
             IN  IF new.threw
                   THEN result(ifNeighbors, new.allocated, NoEvents, FALSE)
                   ELSE result(
                     Put(ifNeighbors, neighborName,
                         [Spark2Neighbor(new.label, remoteSeqNum)
                            EXCEPT !.state = nextState]),
                     new.allocated, NoEvents, nextState = UNEXPECTED)
      ELSE LET neighbor == ifNeighbors[neighborName]
               seen == [neighbor EXCEPT !.seqNum = remoteSeqNum]
           IN  IF neighbor.state = WARM
                 THEN IF ~Has(neighborInfos, myNodeName_)
                        THEN result(Put(ifNeighbors, neighborName, seen),
                                    allocatedLabels_, NoEvents, FALSE)
                      ELSE IF neighborInfos[myNodeName_] >= mySeqNum_
                        THEN result(Put(ifNeighbors, neighborName, seen),
                                    allocatedLabels_, NoEvents, FALSE)
                      ELSE LET nextState ==
                                 getNextState(neighbor.state, HELLO_RCVD_INFO)
                           IN  result(
                                 Put(ifNeighbors, neighborName,
                                     [seen EXCEPT !.negotiateTimer = TRUE,
                                                  !.negotiateHoldTimer = TRUE,
                                                  !.state = nextState]),
                                 allocatedLabels_, NoEvents,
                                 nextState = UNEXPECTED)
               ELSE IF neighbor.state = ESTABLISHED
                 THEN IF ~Has(neighborInfos, myNodeName_)
                        THEN LET nextState ==
                                   getNextState(neighbor.state,
                                                HELLO_RCVD_NO_INFO)
                             IN  result(
                                   Erase(ifNeighbors, neighborName),
                                   allocatedLabels_ \ {neighbor.label},
                                   OneEvent(SparkNeighborEvent(
                                     NEIGHBOR_DOWN, ifName, neighborName,
                                     neighbor.label, None, "spark2")),
                                   nextState = UNEXPECTED)
                        ELSE result(Put(ifNeighbors, neighborName, seen),
                                    allocatedLabels_, NoEvents, FALSE)
               ELSE IF neighbor.state = RESTART
                 THEN result(ifNeighbors, allocatedLabels_, NoEvents, TRUE)
               ELSE nothing

\* a faulty handler: a handshake from a neighbor that is not in NEGOTIATE is
\* reported as NEIGHBOR_UP as well
processHandshakeMsgAlwaysUp(ifName, handshakeMsg) ==
  LET ifNeighbors == spark2Neighbors_[ifName]
      neighborName == handshakeMsg.nodeName
      neighbor == ifNeighbors[neighborName]
      nextState == getNextState(neighbor.state, HANDSHAKE_RCVD)
      up == OneEvent(SparkNeighborEvent(NEIGHBOR_UP, ifName, neighborName,
                                        neighbor.label, None, "spark2"))
      result(nbrs, events, failed) ==
        [neighbors |-> nbrs, allocated |-> allocatedLabels_,
         reported |-> events, aborted |-> failed]
  IN  IF ~Has(ifNeighbors, neighborName)
        THEN result(ifNeighbors, NoEvents, TRUE)
      ELSE IF neighbor.state # NEGOTIATE
        THEN result(ifNeighbors, up, FALSE)
      ELSE result(
             Put(ifNeighbors, neighborName,
                 [neighbor EXCEPT !.transportAddressV4 = handshakeMsg.v4,
                                  !.state = nextState,
                                  !.negotiateTimer = FALSE,
                                  !.negotiateHoldTimer = FALSE]),
             up, nextState = UNEXPECTED)

\* a faulty handler: what the handshake carries is stored before the state of
\* the neighbor and the v4 subnet are looked at
processHandshakeMsgStoresFirst(ifName, handshakeMsg) ==
  LET ifNeighbors == spark2Neighbors_[ifName]
      neighborName == handshakeMsg.nodeName
      neighbor == [ifNeighbors[neighborName]
                     EXCEPT !.transportAddressV4 = handshakeMsg.v4]
      stored == Put(ifNeighbors, neighborName, neighbor)
      nextState == getNextState(neighbor.state, HANDSHAKE_RCVD)
      result(nbrs, events, failed) ==
        [neighbors |-> nbrs, allocated |-> allocatedLabels_,
         reported |-> events, aborted |-> failed]
  IN  IF ~Has(ifNeighbors, neighborName)
        THEN result(ifNeighbors, NoEvents, TRUE)
      ELSE IF neighbor.state # NEGOTIATE
        THEN result(stored, NoEvents, FALSE)
      ELSE IF /\ enableV4_ /\ enableSubnetValidation_
              /\ validateV4AddressSubnet(handshakeMsg.v4) = FAILURE
        THEN result(stored, NoEvents, FALSE)
      ELSE result(
             Put(ifNeighbors, neighborName,
                 [neighbor EXCEPT !.state = nextState,
                                  !.negotiateTimer = FALSE,
                                  !.negotiateHoldTimer = FALSE]),
             OneEvent(SparkNeighborEvent(NEIGHBOR_UP, ifName, neighborName,
                                         neighbor.label, None, "spark2")),
             nextState = UNEXPECTED)

processHandshakeMsg(ifName, handshakeMsg) ==
  LET ifNeighbors == spark2Neighbors_[ifName]
      neighborName == handshakeMsg.nodeName
      neighbor == ifNeighbors[neighborName]
      nextState == getNextState(neighbor.state, HANDSHAKE_RCVD)
      result(nbrs, events, failed) ==
        [neighbors |-> nbrs, allocated |-> allocatedLabels_,
         reported |-> events, aborted |-> failed]
  IN  IF ~Has(ifNeighbors, neighborName)
        THEN result(ifNeighbors, NoEvents, TRUE)
      ELSE IF neighbor.state # NEGOTIATE
        THEN result(ifNeighbors, NoEvents, FALSE)
      ELSE IF /\ enableV4_ /\ enableSubnetValidation_
              /\ validateV4AddressSubnet(handshakeMsg.v4) = FAILURE
        THEN result(ifNeighbors, NoEvents, FALSE)
      ELSE result(
             Put(ifNeighbors, neighborName,
                 [neighbor EXCEPT !.transportAddressV4 = handshakeMsg.v4,
                                  !.state = nextState,
                                  !.negotiateTimer = FALSE,
                                  !.negotiateHoldTimer = FALSE]),
             OneEvent(SparkNeighborEvent(NEIGHBOR_UP, ifName, neighborName,
                                         neighbor.label, None, "spark2")),
             nextState = UNEXPECTED)

\* a faulty handler: the periodic handshake timer is left armed when the
\* negotiate hold timer fired
processNegotiateTimeoutKeepsTimer(ifName, neighborName) ==
  LET ifNeighbors == spark2Neighbors_[ifName]
      neighbor == ifNeighbors[neighborName]
      nextState == getNextState(neighbor.state, NEGOTIATE_TIMER_EXPIRE)
  IN  IF neighbor.state # NEGOTIATE
        THEN [neighbors |-> ifNeighbors, aborted |-> TRUE]
        ELSE [neighbors |->
                Put(ifNeighbors, neighborName,
                    [neighbor EXCEPT !.state = nextState,
                                     !.negotiateHoldTimer = FALSE]),
              aborted |-> nextState = UNEXPECTED]

\* a faulty handler: the neighbor stays in NEGOTIATE when its negotiate hold
\* timer fired
processNegotiateTimeoutStays(ifName, neighborName) ==
  LET ifNeighbors == spark2Neighbors_[ifName]
      neighbor == ifNeighbors[neighborName]
  IN  IF neighbor.state # NEGOTIATE
        THEN [neighbors |-> ifNeighbors, aborted |-> TRUE]
        ELSE [neighbors |->
                Put(ifNeighbors, neighborName,
                    [neighbor EXCEPT !.negotiateHoldTimer = FALSE]),
              aborted |-> FALSE]

\* Spark::processHeartbeatMsg: CHECK(false) << "Not implemented yet"
processHeartbeatMsg == [aborted |-> TRUE]

\* the negotiate hold timer of neighborName fired
processNegotiateTimeout(ifName, neighborName) ==
  LET ifNeighbors == spark2Neighbors_[ifName]
      neighbor == ifNeighbors[neighborName]
      nextState == getNextState(neighbor.state, NEGOTIATE_TIMER_EXPIRE)
  IN  IF neighbor.state # NEGOTIATE
        THEN [neighbors |-> ifNeighbors, aborted |-> TRUE]
        ELSE [neighbors |->
                Put(ifNeighbors, neighborName,
                    [neighbor EXCEPT !.state = nextState,
                                     !.negotiateTimer = FALSE,
                                     !.negotiateHoldTimer = FALSE]),
              aborted |-> nextState = UNEXPECTED]

\* the hold timer of neighborName fired
processNeighborHoldTimeout(ifName, neighborName) ==
  LET ifNeighbors == neighbors_[ifName]
      neighbor == ifNeighbors[neighborName]
  IN  [neighbors |-> Erase(ifNeighbors, neighborName),
       allocated |-> allocatedLabels_ \ {neighbor.label},
       reported |->
         IF neighbor.isAdjacent
           THEN OneEvent(SparkNeighborEvent(NEIGHBOR_DOWN, ifName,
                                            neighborName, neighbor.label,
                                            None, "legacy"))
           ELSE NoEvents]


(***************************************************************************)
(* Sending hellos.                                                         *)
(***************************************************************************)
\* const int kNumRestartingPktSent
kNumRestartingPktSent == 3

\* the fields of a sent hello that the model follows
SentHello(ifName, seqNum, restarting) ==
  [ifName |-> ifName, seqNum |-> seqNum, restarting |-> restarting]

\* the packets sent and the local sequence number afterwards; nothing is
\* sent on an interface that is not tracked
sendHelloPacket(ifName, restarting, seqNum) ==
  IF ~Has(interfaceDb_, ifName)
    THEN [sent |-> <<>>, mySeqNum |-> seqNum]
    ELSE [sent |-> <<SentHello(ifName, seqNum, restarting)>>,
          mySeqNum |-> seqNum + 1]

RECURSIVE sendAll(_, _, _)
\* sendHelloPacket for the interfaces ifNames in this order
sendAll(ifNames, restarting, seqNum) ==
  IF ifNames = <<>>
    THEN [sent |-> <<>>, mySeqNum |-> seqNum]
    ELSE LET first == sendHelloPacket(Head(ifNames), restarting, seqNum)
             rest == sendAll(Tail(ifNames), restarting, first.mySeqNum)
         IN  [sent |-> first.sent \o rest.sent, mySeqNum |-> rest.mySeqNum]

RECURSIVE stopRounds(_, _, _)
stopRounds(rounds, ifNames, seqNum) ==
  IF rounds = 0
    THEN [sent |-> <<>>, mySeqNum |-> seqNum]
    ELSE LET first == sendAll(ifNames, TRUE, seqNum)
             rest == stopRounds(rounds - 1, ifNames, first.mySeqNum)
         IN  [sent |-> first.sent \o rest.sent, mySeqNum |-> rest.mySeqNum]

\* a faulty stop: one restarting hello per interface
stopOnce(ifNames) == stopRounds(1, ifNames, mySeqNum_)

\* Spark::stop; ifNames is the order in which interfaceDb_ is iterated
stop(ifNames) == stopRounds(kNumRestartingPktSent, ifNames, mySeqNum_)

\* the orders in which an unordered_map over the keys S may be iterated
Orders(S) ==
  {o \in [1 .. Cardinality(S) -> S] : \A i, j \in DOMAIN o : i # j => o[i] # o[j]}

(***************************************************************************)
(* Interface database update.                                              *)
(***************************************************************************)
\* an entry of thrift::InterfaceDatabase.interfaces; present = FALSE stands
\* for an interface the update does not list
IfEntry(present, isUp, ifIndex, v6LinkLocal, v4) ==
  [present |-> present, isUp |-> isUp, ifIndex |-> ifIndex,
   v6LinkLocal |-> v6LinkLocal, v4 |-> v4]

\* up, with a v6 link-local address, and with a v4 address when v4 is enabled
isValidInterface(entry) ==
  /\ entry.present
  /\ entry.isUp
  /\ entry.v6LinkLocal
  /\ ~(enableV4_ /\ ~entry.v4)

AllNeighbors(table, ifNames) ==
  {<<i, n>> : i \in ifNames, n \in Nodes} \cap
    {k \in Ifaces \X Nodes : Has(table, k[1]) /\ Has(table[k[1]], k[2])}

\* a faulty handler: the hello timer of a removed interface is kept
processRequestMsgKeepsTimers(ifDb) ==
  LET newInterfaceDb ==
        [i \in {j \in Ifaces : isValidInterface(ifDb[j])} |-> ifDb[i].ifIndex]
      toAdd == DOMAIN newInterfaceDb \ DOMAIN interfaceDb_
      toDel == DOMAIN interfaceDb_ \ DOMAIN newInterfaceDb
      goneSpark2 ==
        IF enableSpark2_ THEN AllNeighbors(spark2Neighbors_, toDel) ELSE {}
      goneLegacy == AllNeighbors(neighbors_, toDel)
      down(table, k, kind) ==
        SparkNeighborEvent(NEIGHBOR_DOWN, k[1], k[2], table[k[1]][k[2]].label,
                           None, kind)
  IN  [interfaceDb |-> newInterfaceDb,
       helloTimers |-> ifNameToHelloTimers_ \cup toAdd,
       neighbors |->
         [i \in DOMAIN newInterfaceDb |->
            IF i \in toAdd THEN EmptyMap ELSE neighbors_[i]],
       spark2Neighbors |->
         IF enableSpark2_
           THEN [i \in DOMAIN newInterfaceDb |->
                   IF i \in toAdd THEN EmptyMap ELSE spark2Neighbors_[i]]
           ELSE spark2Neighbors_,
       allocated |->
         (allocatedLabels_
            \ {spark2Neighbors_[k[1]][k[2]].label : k \in goneSpark2})
            \ {neighbors_[k[1]][k[2]].label : k \in goneLegacy},
       reported |->
         SetToBag({down(spark2Neighbors_, k, "spark2") : k \in goneSpark2}
                  \cup
                  {down(neighbors_, k, "legacy") :
                     k \in {g \in goneLegacy :
                              neighbors_[g[1]][g[2]].isAdjacent}})]

\* the interface database, both neighbor tables, the allocated labels and
\* the reported events after the update
processRequestMsg(ifDb) ==
  LET newInterfaceDb ==
        [i \in {j \in Ifaces : isValidInterface(ifDb[j])} |-> ifDb[i].ifIndex]
      toAdd == DOMAIN newInterfaceDb \ DOMAIN interfaceDb_
      toDel == DOMAIN interfaceDb_ \ DOMAIN newInterfaceDb
      goneSpark2 ==
        IF enableSpark2_ THEN AllNeighbors(spark2Neighbors_, toDel) ELSE {}
      goneLegacy == AllNeighbors(neighbors_, toDel)
      down(table, k, kind) ==
        SparkNeighborEvent(NEIGHBOR_DOWN, k[1], k[2], table[k[1]][k[2]].label,
                           None, kind)
  IN  [interfaceDb |-> newInterfaceDb,
       helloTimers |-> (ifNameToHelloTimers_ \ toDel) \cup toAdd,
       neighbors |->
         [i \in DOMAIN newInterfaceDb |->
            IF i \in toAdd THEN EmptyMap ELSE neighbors_[i]],
       spark2Neighbors |->
         IF enableSpark2_
           THEN [i \in DOMAIN newInterfaceDb |->
                   IF i \in toAdd THEN EmptyMap ELSE spark2Neighbors_[i]]
           ELSE spark2Neighbors_,
       allocated |->
         (allocatedLabels_
            \ {spark2Neighbors_[k[1]][k[2]].label : k \in goneSpark2})
            \ {neighbors_[k[1]][k[2]].label : k \in goneLegacy},
       reported |->
         SetToBag({down(spark2Neighbors_, k, "spark2") : k \in goneSpark2}
                  \cup
                  {down(neighbors_, k, "legacy") :
                     k \in {g \in goneLegacy :
                              neighbors_[g[1]][g[2]].isAdjacent}})]

(***************************************************************************)
(* Inputs.                                                                 *)
(***************************************************************************)
\* constructor arguments the model is checked for
Config(enableSpark2, enableV4, enableSubnetValidation, areas) ==
  [enableSpark2 |-> enableSpark2, enableV4 |-> enableV4,
   enableSubnetValidation |-> enableSubnetValidation, areas |-> areas]

Configs ==
  {Config(FALSE, FALSE, FALSE, NoAreas),
   Config(FALSE, FALSE, FALSE, SomeAreas({"a2"})),
   Config(FALSE, FALSE, FALSE, SomeAreas({"a1", "a2"})),
   Config(FALSE, TRUE, FALSE, NoAreas),
   Config(FALSE, TRUE, TRUE, NoAreas),
   Config(TRUE, FALSE, FALSE, NoAreas),
   Config(TRUE, FALSE, FALSE, SomeAreas({"a1", "a2"})),
   Config(TRUE, TRUE, TRUE, NoAreas)}

\* neighborInfos of a hello, restricted to the entry of the local node
NeighborInfos ==
  {EmptyMap} \cup {[x \in {myNodeName_} |-> q] : q \in SeqNums}

HelloFields(helloMsg, nodeName, domainName, version, seqNum, neighborInfos, restarting, areas, v4) ==
  [helloMsg |-> helloMsg, nodeName |-> nodeName, domainName |-> domainName,
   version |-> version, seqNum |-> seqNum, neighborInfos |-> neighborInfos,
   restarting |-> restarting, areas |-> areas, v4 |-> v4]

\* the fields a receiver with this configuration looks at vary
PktAreas ==
  IF areas_.hasValue
    THEN {NoAreas, SomeAreas({"a1"}), SomeAreas({"a1", "a2"})}
    ELSE {SomeAreas({"a1"})}
PktV4 == IF enableV4_ THEN V4Addrs ELSE {"a"}

\* hellos of the nodes N that pass sanityCheckHelloPkt; helloMsg tells
\* whether the packet carries the Spark2 helloMsg next to the legacy payload
GoodHellos(N, helloMsg) ==
  {HelloFields(helloMsg, n, myDomainName_, lowestSupportedVersion, q, infos,
               FALSE, a, v) :
     n \in N, q \in SeqNums, infos \in NeighborInfos, a \in PktAreas,
     v \in PktV4}
  \cup
  {HelloFields(helloMsg, n, myDomainName_, lowestSupportedVersion, q,
               EmptyMap, TRUE, a, v) :
     n \in N, q \in SeqNums, a \in PktAreas, v \in PktV4}

\* hellos from the local node, from another domain, of an old version
BadHellos(N, helloMsg) ==
  LET base(n, q) ==
        HelloFields(helloMsg, n, myDomainName_, lowestSupportedVersion, q,
                    [x \in {myNodeName_} |-> 0], FALSE, SomeAreas({"a2"}),
                    "a")
  IN  UNION {{[base(n, q) EXCEPT !.nodeName = myNodeName_],
              [base(n, q) EXCEPT !.domainName = "d2"],
              [base(n, q) EXCEPT !.version = lowestSupportedVersion - 1]} :
               n \in N, q \in SeqNums}

\* the default-constructed payload of a packet that carries no hello
EmptyPayload ==
  HelloFields(FALSE, "", "", 0, 0, EmptyMap, FALSE, NoAreas, "none")

Hellos(N, helloMsg) == GoodHellos(N, helloMsg) \cup BadHellos(N, helloMsg)

\* the packets handled the legacy way: hellos without helloMsg (a receiver
\* without Spark2 never reads helloMsg, so hellos with it are the same to it)
\* and packets without hello
LegacyPackets(N) == Hellos(N, FALSE) \cup {EmptyPayload}

Handshakes(N) ==
  {[nodeName |-> n, isAdjEstablished |-> e, v4 |-> v] :
     n \in N, e \in BOOLEAN, v \in PktV4}

\* interface database updates: every interface is not listed, down, without
\* v6 link-local address, without v4 address, or valid with some ifIndex;
\* valid interfaces have different indexes; interfaces outside I do not
\* exist on the node
NotListed == IfEntry(FALSE, FALSE, 1, FALSE, FALSE)
IfEntries ==
  {NotListed, IfEntry(TRUE, FALSE, 1, TRUE, TRUE),
   IfEntry(TRUE, TRUE, 1, FALSE, TRUE), IfEntry(TRUE, TRUE, 1, TRUE, FALSE)}
  \cup {IfEntry(TRUE, TRUE, x, TRUE, TRUE) : x \in 1 .. MaxIfIndex}

IfDbs(I) ==
  {ifDb \in [Ifaces -> IfEntries] :
     /\ \A i \in Ifaces \ I : ifDb[i] = NotListed
     /\ \A i, j \in Ifaces :
          (i # j /\ isValidInterface(ifDb[i]) /\ isValidInterface(ifDb[j]))
            => ifDb[i].ifIndex # ifDb[j].ifIndex}

\* one link: a single interface with a single neighbor on it
LinkIfaces == {"if1"}
LinkNodes == {"n1"}

(***************************************************************************)
(* Rate limiting of received packets.                                      *)
(***************************************************************************)
\* folly::BucketedTimeSeries::update: the values older than the duration of
\* the series expire
update(series, t) == SelectSeq(series, LAMBDA x : x > t - OneSecond)
\* folly::BucketedTimeSeries::count
count(series) == Len(series)
\* folly::BucketedTimeSeries::addValue(t, 1)
addValue(series, t) == Append(series, t)

\* index is the hash of (ifName, addr) modulo kNumTimeSeries; the result is
\* whether the packet is processed, and the time series of index afterwards
shouldProcessHelloPacket(index) ==
  LET updated == update(timeSeriesVector_[index], now)
  IN  IF count(updated) > kMaxAllowedPps
        THEN [process |-> FALSE, series |-> updated]
        ELSE [process |-> TRUE, series |-> addValue(updated, now)]

\* the constructor's list of empty time series
InitRate ==
  /\ now = 0
  /\ timeSeriesVector_ = [index \in 0 .. kNumTimeSeries - 1 |-> <<>>]
  /\ processed = TRUE

(***************************************************************************)
(* RTT measurement from the timestamps reflected in a hello.               *)
(***************************************************************************)
\* timestamps in microseconds; 0 is a timestamp that is not set
Timestamps == {0, 500, 1000, 2500, 4000}

Tstamps(mySentTime, nbrRecvTime, nbrSentTime, myRecvTime) ==
  [mySentTime |-> mySentTime, nbrRecvTime |-> nbrRecvTime,
   nbrSentTime |-> nbrSentTime, myRecvTime |-> myRecvTime]

\* integer division of C++, which truncates towards zero
Div(a, b) == IF a >= 0 THEN a \div b ELSE -((-a) \div b)
Max(a, b) == IF a >= b THEN a ELSE b

\* the measurement of processHelloPacket: whether a value is added to the
\* step detector, and the value
measureRtt(t) ==
  LET useRtt == ~(t.nbrSentTime < t.nbrRecvTime) /\ ~(t.myRecvTime < t.mySentTime)
      measured ==
        (t.myRecvTime - t.mySentTime) - (t.nbrSentTime - t.nbrRecvTime)
      rtt == Max(Div(measured, 1000) * 1000, 1000)
  IN  IF t.mySentTime # 0 /\ t.nbrRecvTime # 0 /\ useRtt /\ ~(rtt < 0)
        THEN [added |-> TRUE, rtt |-> rtt]
        ELSE [added |-> FALSE, rtt |-> 0]

\* a neighbor as constructed: no hello looked at, no RTT
InitRtt ==
  /\ tstamps = Tstamps(0, 0, 0, 0)
  /\ stepDetectorAdded = FALSE
  /\ rttLatest = 0

\* the state outside neighbor discovery proper, after construction
(***************************************************************************)
(* KvStoreClientInternal: the keys a module persists in the KvStore.       *)
(***************************************************************************)
MaxVersion == 3
MaxTtlVersion == 2
FiniteTtl == 4
kTtlInfinity == 0 - 1
kDefaultArea == "0"
KvAreas == {kDefaultArea, "1"}
KvKeys == {"k1", "k2"}
KvData == {"a", "b"}
nodeId_ == "node1"
\* the originator ids, in the order of std::string's operator<
KvNodes == <<"node0", "node1", "node2">>
OriginatorIds == {KvNodes[i] : i \in 1 .. Len(KvNodes)}
Ttls == {kTtlInfinity, FiniteTtl}

\* no entry under a key of a map, or std::nullopt
Missing == [missing |-> TRUE]
\* ExponentialBackoff, as far as canTryNow() tells
Backoff(canTryNow) == [canTryNow |-> canTryNow]

\* thrift::Value; value = None is an absent optional (a TTL update)
createThriftValue(version, originatorId, value, ttl, ttlVersion) ==
  [version |-> version, originatorId |-> originatorId, value |-> value,
   ttl |-> ttl, ttlVersion |-> ttlVersion]

\* the client's maps and what a handler did so far, as one record
Client ==
  [persistedKeyVals |-> persistedKeyVals_,
   keyTtlBackoffs |-> keyTtlBackoffs_,
   keysToAdvertise |-> keysToAdvertise_,
   backoffs |-> backoffs_,
   invoked |-> {},
   setRequests |-> {},
   ignored |-> {},
   thrown |-> FALSE,
   result |-> TRUE,
   advertiseKeyValsTimer |-> advertiseKeyValsTimer_]

\* a callback invocation: which callback, for which key, with which value
Invoked(callback, key, value) ==
  [callback |-> callback, key |-> key, value |-> value]
\* one key-value of a KeySetParams handed to KvStore::setKvStoreKeyVals
SetRequest(area, key, value) == [area |-> area, key |-> key, value |-> value]

\* a faulty helper: a set request the KvStore failed is taken for done
setKeysHelperNeverFails(keys, area, failed) == TRUE
\* KvStoreClientInternal::setKeysHelper: whether the set request of the keys
\* has a result; failed is the set of areas whose KvStore throws
setKeysHelper(keys, area, failed) == keys = {} \/ area \notin failed

\* the body of the loop of advertisePendingKeys for one area; failed is the
\* set of areas whose set request throws in the KvStore
advertisePendingKeysArea(c, area, failed) ==
  LET keysToAdvertise == c.keysToAdvertise[area]
      persistedKeyVals == c.persistedKeyVals[area]
      \* the keys whose backoff allows a try
      keys == {key \in keysToAdvertise : c.backoffs[key].canTryNow}
      ret == setKeysHelper(keys, area, failed)
  IN  IF keysToAdvertise = {}
        THEN c
        ELSE IF \E key \in keysToAdvertise :
                  persistedKeyVals[key] = Missing \/ c.backoffs[key] = Missing
          THEN [c EXCEPT !.thrown = TRUE]  \* std::out_of_range from at()
          ELSE [c EXCEPT
                 !.backoffs =
                   [key \in KvKeys |-> IF key \in keys THEN Backoff(FALSE) ELSE @[key]],
                 !.keysToAdvertise[area] = IF ret THEN @ \ keys ELSE @,
                 !.setRequests =
                   @ \cup {SetRequest(area, key, persistedKeyVals[key]) :
                             key \in keys}]

\* KvStoreClientInternal::advertisePendingKeys, visiting the areas in the
\* order given
RECURSIVE advertisePendingKeys(_, _, _)
advertisePendingKeys(c, areas, failed) ==
  IF c.thrown
    THEN c
    ELSE IF areas = <<>>
      \* advertiseKeyValsTimer_->scheduleTimeout(timeout)
      THEN [c EXCEPT !.advertiseKeyValsTimer = TRUE]
      ELSE advertisePendingKeys(
             advertisePendingKeysArea(c, Head(areas), failed), Tail(areas),
             failed)

\* the TTL update advertiseTtlUpdates sends for a key whose backoff allows
\* a try
ttlUpdate(c, area, key) ==
  LET thriftValue == c.keyTtlBackoffs[area][key].value
      it == c.persistedKeyVals[area][key]
      synced == IF it # Missing /\ thriftValue.version < it.version
                  THEN [thriftValue EXCEPT !.version = it.version,
                                           !.ttlVersion = it.ttlVersion]
                  ELSE thriftValue
  IN  [synced EXCEPT !.ttlVersion = @ + 1]

\* KvStoreClientInternal::advertiseTtlUpdates
advertiseTtlUpdates(c) ==
  LET due(area) == {key \in KvKeys :
                      /\ c.keyTtlBackoffs[area][key] # Missing
                      /\ c.keyTtlBackoffs[area][key].canTryNow}
  IN  [c EXCEPT
        !.keyTtlBackoffs =
          [area \in KvAreas |-> [key \in KvKeys |->
             IF key \in due(area)
               THEN [value |-> ttlUpdate(c, area, key), canTryNow |-> FALSE]
               ELSE @[area][key]]],
        !.setRequests =
          @ \cup UNION {{SetRequest(area, key, ttlUpdate(c, area, key)) :
                           key \in due(area)} : area \in KvAreas}]

\* KvStoreClientInternal::scheduleTtlUpdates
scheduleTtlUpdates(c, key, version, ttlVersion, ttl, advertiseImmediately, area) ==
  IF ttl = kTtlInfinity
    THEN [c EXCEPT !.keyTtlBackoffs[area][key] = Missing]
    ELSE advertiseTtlUpdates(
           [c EXCEPT !.keyTtlBackoffs[area][key] =
              [value |-> createThriftValue(version, nodeId_, None, ttl,
                                           ttlVersion),
               canTryNow |-> advertiseImmediately]])

\* std::string's operator> on originator ids
OriginatorGreater(a, b) == IndexOf(KvNodes, a) > IndexOf(KvNodes, b)

\* a faulty loop body: a received record never touches the TTL refreshes
processSetKeyKeeps(keyTtlBackoffs, key, rcvdValue) == keyTtlBackoffs

\* processPublication, the body of the loop for a key that was set with a
\* finite TTL but is not persisted
processSetKey(keyTtlBackoffs, key, rcvdValue) ==
  LET sk == keyTtlBackoffs[key]
      setValue == sk.value
  IN  IF \/ rcvdValue.version > setValue.version
         \/ /\ rcvdValue.version = setValue.version
            /\ OriginatorGreater(rcvdValue.originatorId, setValue.originatorId)
        THEN [keyTtlBackoffs EXCEPT ![key] = Missing]
        ELSE IF /\ rcvdValue.version = setValue.version
                /\ rcvdValue.originatorId = setValue.originatorId
                /\ rcvdValue.ttlVersion > setValue.ttlVersion
          THEN [keyTtlBackoffs EXCEPT
                  ![key].value.ttlVersion = rcvdValue.ttlVersion + 1]
          ELSE keyTtlBackoffs

\* a faulty merge: the received record replaces the persisted one
mergePersistedTakesReceived(currentValue, sk, rcvdValue) ==
  [value |-> rcvdValue, sk |-> sk, valueChange |-> FALSE]

\* processPublication, the body of the loop for a key that is persisted and
\* whose version is not above the received one: the new persisted value
\* and whether it has to be advertised
mergePersisted(currentValue, sk, rcvdValue) ==
  LET bumped ==
        IF currentValue.version < rcvdValue.version
          THEN [currentValue EXCEPT !.originatorId = nodeId_,
                                    !.version = rcvdValue.version + 1,
                                    !.ttlVersion = 0]
          ELSE IF \/ rcvdValue.originatorId # nodeId_
                  \/ currentValue.value # rcvdValue.value
            THEN [currentValue EXCEPT !.originatorId = nodeId_,
                                      !.version = @ + 1,
                                      !.ttlVersion = 0]
            ELSE currentValue
      valueChange == \/ currentValue.version < rcvdValue.version
                     \/ rcvdValue.originatorId # nodeId_
                     \/ currentValue.value # rcvdValue.value
      copied == IF sk # Missing
                  THEN [bumped EXCEPT !.ttlVersion = sk.value.ttlVersion]
                  ELSE bumped
      higher == copied.ttlVersion < rcvdValue.ttlVersion
  IN  [value |-> IF higher
                   THEN [copied EXCEPT !.ttlVersion = rcvdValue.ttlVersion]
                   ELSE copied,
       sk |-> IF higher /\ sk # Missing
                THEN [sk EXCEPT !.value.ttlVersion = rcvdValue.ttlVersion]
                ELSE sk,
       valueChange |-> valueChange]

\* the variant of the test for a TTL update that lets every record through
isTtlUpdateNever(rcvdValue) == FALSE
\* processPublication: "if (not rcvdValue.value)"
isTtlUpdate(rcvdValue) == rcvdValue.value = None

\* processPublication, the body of the loop for one received key-value of
\* the area
processKeyVal(c, area, key, rcvdValue) ==
  LET it == c.persistedKeyVals[area][key]
      sk == c.keyTtlBackoffs[area][key]
      kvCallback == IF kvCallback_
                      THEN {Invoked("kvCallback_", key, rcvdValue)}
                      ELSE {}
      keyCallback(value) == IF key \in keyCallbacks_
                              THEN {Invoked("keyCallbacks_", key, value)}
                              ELSE {}
      m == mergePersisted(it, sk, rcvdValue)
  IN  IF isTtlUpdate(rcvdValue)
        THEN [c EXCEPT !.ignored = @ \cup {key}]
        ELSE IF it = Missing
          THEN [c EXCEPT
                 !.keyTtlBackoffs[area] =
                   IF sk # Missing THEN processSetKey(@, key, rcvdValue) ELSE @,
                 !.invoked = @ \cup kvCallback \cup keyCallback(rcvdValue)]
          ELSE IF it.version > rcvdValue.version
            THEN [c EXCEPT !.invoked = @ \cup kvCallback]
            ELSE [c EXCEPT
                   !.persistedKeyVals[area][key] = m.value,
                   !.keyTtlBackoffs[area][key] = m.sk,
                   !.invoked =
                     @ \cup kvCallback
                       \cup IF m.valueChange THEN keyCallback(m.value) ELSE {},
                   !.keysToAdvertise[area] =
                     IF m.valueChange THEN @ \cup {key} ELSE @]

\* processPublication, the loop over publication.keyVals
RECURSIVE processKeyVals(_, _, _)
processKeyVals(c, area, keyVals) ==
  IF DOMAIN keyVals = {}
    THEN c
    ELSE LET key == CHOOSE k \in DOMAIN keyVals : TRUE
         IN  processKeyVals(processKeyVal(c, area, key, keyVals[key]), area,
                            [k \in DOMAIN keyVals \ {key} |-> keyVals[k]])

\* KvStoreClientInternal::processExpiredKeys
processExpiredKeys(c, expiredKeys) ==
  [c EXCEPT !.invoked =
     @ \cup {Invoked("kvCallback_", key, Missing) :
               key \in IF kvCallback_ THEN expiredKeys ELSE {}}
       \cup {Invoked("keyCallbacks_", key, Missing) :
               key \in expiredKeys \cap keyCallbacks_}]

\* thrift::Publication
Publication(area, keyVals, expiredKeys) ==
  [area |-> area, keyVals |-> keyVals, expiredKeys |-> expiredKeys]

\* KvStoreClientInternal::processPublication
processPublication(c, publication, areas, failed) ==
  LET looped == processKeyVals(c, publication.area, publication.keyVals)
      advertised == advertisePendingKeys(looped, areas, failed)
  IN  IF advertised.thrown
        THEN advertised
        ELSE processExpiredKeys(advertised, publication.expiredKeys)

\* KvStoreClientInternal::persistKey; maybeValue is what getKey finds in
\* the KvStore
\* a faulty test: no persisted record is taken for the one to persist
sameValueAndTtlNever(thriftValue, value, ttl) == FALSE
\* the persisted record has the value and the ttl to persist
sameValueAndTtl(thriftValue, value, ttl) ==
  thriftValue.value = value /\ thriftValue.ttl = ttl

\* a faulty test: a record of another originator with the value is kept
needsNewVersionByValue(thriftValue, value) == thriftValue.value # value
\* the known record is not this node's record of the value
needsNewVersion(thriftValue, value) ==
  thriftValue.originatorId # nodeId_ \/ thriftValue.value # value

persistKey(c, key, value, ttl, area, maybeValue, areas, failed) ==
  LET keyIt == c.persistedKeyVals[area][key]
      ttlIt == c.keyTtlBackoffs[area][key]
      noop == keyIt # Missing /\ sameValueAndTtl(keyIt, value, ttl)
      existing ==
        IF keyIt = Missing
          THEN IF maybeValue # Missing
                 THEN maybeValue
                 ELSE createThriftValue(0, nodeId_, value, ttl, 0)
          ELSE IF ttlIt # Missing
            THEN [keyIt EXCEPT !.ttlVersion = ttlIt.value.ttlVersion]
            ELSE keyIt
      valueChange == existing.version = 0 \/ needsNewVersion(existing, value)
      changed ==
        IF existing.version = 0
          THEN [existing EXCEPT !.version = 1]
          ELSE IF needsNewVersion(existing, value)
            THEN [existing EXCEPT !.version = @ + 1, !.ttlVersion = 0,
                                  !.value = value, !.originatorId = nodeId_]
            ELSE existing
      hasTtlChanged == ttl # changed.ttl
      thriftValue == [changed EXCEPT !.ttl = ttl]
      cached ==
        [c EXCEPT
          !.persistedKeyVals[area][key] = thriftValue,
          !.backoffs[key] = Backoff(TRUE),
          !.invoked =
            IF key \in keyCallbacks_ /\ valueChange
              THEN @ \cup {Invoked("keyCallbacks_", key, thriftValue)}
              ELSE @,
          !.keysToAdvertise[area] = IF valueChange THEN @ \cup {key} ELSE @]
      advertised == advertisePendingKeys(cached, areas, failed)
  IN  IF noop
        THEN [c EXCEPT !.result = FALSE]
        ELSE IF advertised.thrown
          THEN advertised
          ELSE scheduleTtlUpdates(advertised, key, thriftValue.version,
                                  thriftValue.ttlVersion, ttl, hasTtlChanged,
                                  area)

\* KvStoreClientInternal::buildThriftValue
buildThriftValue(value, version, ttl, maybeValue) ==
  createThriftValue(
    IF version # 0
      THEN version
      ELSE IF maybeValue # Missing THEN maybeValue.version + 1 ELSE 1,
    nodeId_, value, ttl, 0)

\* KvStoreClientInternal::setKey(key, value, version, ttl, area)
setKey(c, key, value, version, ttl, area, maybeValue) ==
  LET thriftValue == buildThriftValue(value, version, ttl, maybeValue)
  IN  scheduleTtlUpdates(
        [c EXCEPT !.setRequests = @ \cup {SetRequest(area, key, thriftValue)}],
        key, thriftValue.version, thriftValue.ttlVersion, ttl, FALSE, area)

\* a faulty unsetKey: the TTL refresh of the key goes on
unsetKeyKeepsTtl(c, key, area) ==
  [c EXCEPT !.persistedKeyVals[area][key] = Missing,
            !.backoffs[key] = Missing,
            !.keysToAdvertise[area] = @ \ {key}]

\* KvStoreClientInternal::unsetKey
unsetKey(c, key, area) ==
  [c EXCEPT !.persistedKeyVals[area][key] = Missing,
            !.backoffs[key] = Missing,
            !.keyTtlBackoffs[area][key] = Missing,
            !.keysToAdvertise[area] = @ \ {key}]

\* a faulty clearKey: the record is written with the version the KvStore has
clearKeyKeepsVersion(c, key, keyValue, ttl, area, maybeValue) ==
  LET erased == unsetKey(c, key, area)
  IN  IF maybeValue = Missing
        THEN erased
        ELSE [erased EXCEPT !.setRequests =
                @ \cup {SetRequest(area, key,
                          createThriftValue(maybeValue.version, nodeId_,
                                            keyValue, ttl, 0))}]

\* KvStoreClientInternal::clearKey; maybeValue is what getKey finds in the
\* KvStore
clearKey(c, key, keyValue, ttl, area, maybeValue) ==
  LET erased == unsetKey(c, key, area)
  IN  IF maybeValue = Missing
        THEN erased
        ELSE [erased EXCEPT !.setRequests =
                @ \cup {SetRequest(area, key,
                          createThriftValue(maybeValue.version + 1, nodeId_,
                                            keyValue, ttl, 0))}]

\* the client after construction
InitKvClientWith(checkPersistKeyPeriod) ==
  /\ persistedKeyVals_ = [area \in KvAreas |-> [key \in KvKeys |-> Missing]]
  /\ keyTtlBackoffs_ = [area \in KvAreas |-> [key \in KvKeys |-> Missing]]
  /\ keysToAdvertise_ = [area \in KvAreas |-> {}]
  /\ backoffs_ = [key \in KvKeys |-> Missing]
  /\ keyCallbacks_ = {}
  /\ kvCallback_ = FALSE
  /\ invoked = {}
  /\ setRequests = {}
  /\ ignored = {}
  /\ kvAborted = FALSE
  /\ advertiseKeyValsTimer_ = FALSE
  \* initTimers: "if (checkPersistKeyPeriod_.has_value())"
  /\ checkPersistKeyTimer_ = (checkPersistKeyPeriod # Missing)
  /\ kvStore_ = [key \in KvKeys |-> Missing]
  /\ ttlSent = [key \in KvKeys |-> [version \in 1 .. MaxVersion |-> 0]]

\* the client without the periodic check of its persisted keys
InitKvClient == InitKvClientWith(Missing)

(***************************************************************************)
(* The KvStore behind KvStoreWrapper and the stream of its publications.   *)
(* KvStore.cpp and OpenrCtrlHandler are not among the sources; the merge   *)
(* of a received record and the stream follow the specification.           *)
(***************************************************************************)
StoreKeys == {"snoop-key"}
\* originator ids and values, in the order the records compare
StoreNodes == <<"node1", "node2">>
StoreData == <<"value1", "value2">>
\* the records KvStoreWrapper::setKey is called with: with a value and the
\* default ttlVersion
SetValues ==
  {createThriftValue(version, StoreNodes[n], StoreData[d], kTtlInfinity, 0) :
     version \in 1 .. MaxVersion, n \in 1 .. Len(StoreNodes),
     d \in 1 .. Len(StoreData)}

\* the values of the records, in the order they compare
ValueOrder == <<"a", "b">> \o StoreData
\* the order on (version, originator id, value): a higher tuple wins
Newer(vIn, vLoc) ==
  \/ vIn.version > vLoc.version
  \/ /\ vIn.version = vLoc.version
     /\ IndexOf(StoreNodes, vIn.originatorId) >
          IndexOf(StoreNodes, vLoc.originatorId)
  \/ /\ vIn.version = vLoc.version
     /\ vIn.originatorId = vLoc.originatorId
     /\ IndexOf(ValueOrder, vIn.value) > IndexOf(ValueOrder, vLoc.value)

\* the variant of the merge rule that takes every record
acceptedAlways(vLoc, vIn) == TRUE
\* the merge rule: a record is taken when the key is new or the record is
\* strictly newer than the stored one
accepted(vLoc, vIn) == vLoc = Missing \/ Newer(vIn, vLoc)

\* the KvStore after construction, without a subscriber
InitStore ==
  /\ kvStoreDb = [key \in StoreKeys |-> Missing]
  /\ publishers = 0
  /\ received = <<>>

(***************************************************************************)
(* PrefixManager: the prefixes a node advertises.  PrefixManager.cpp is    *)
(* not among the sources; the helpers follow their declarations in         *)
(* PrefixManager.h and the comments there.                                 *)
(***************************************************************************)
IpPrefixes == {"10.0.0.0/8", "20.0.0.0/8", "23.0.0.0/8"}
PrefixTypes == {"LOOPBACK", "BGP"}
\* thrift::PrefixEntry
createPrefixEntry(prefix, type) == [prefix |-> prefix, type |-> type]
PrefixEntries ==
  {createPrefixEntry(prefix, type) : prefix \in IpPrefixes, type \in PrefixTypes}
\* the lists of entries of a request: no prefix twice
PrefixLists ==
  {prefixes \in SUBSET PrefixEntries :
     \A e, f \in prefixes : e.prefix = f.prefix => e = f}

\* PrefixManager::addOrUpdatePrefixes
addOrUpdatePrefixes(prefixMap, prefixes) ==
  [prefix \in IpPrefixes |->
     IF \E e \in prefixes : e.prefix = prefix
       THEN CHOOSE e \in prefixes : e.prefix = prefix
       ELSE prefixMap[prefix]]
\* PrefixManager::removePrefixes
removePrefixes(prefixMap, prefixes) ==
  [prefix \in IpPrefixes |->
     IF prefixMap[prefix] \in prefixes THEN Missing ELSE prefixMap[prefix]]
\* PrefixManager::removePrefixesByType
removePrefixesByType(prefixMap, type) ==
  [prefix \in IpPrefixes |->
     IF prefixMap[prefix] # Missing /\ prefixMap[prefix].type = type
       THEN Missing
       ELSE prefixMap[prefix]]
\* PrefixManager::syncPrefixesByType
syncPrefixesByType(prefixMap, type, prefixes) ==
  addOrUpdatePrefixes(removePrefixesByType(prefixMap, type), prefixes)
\* the entries of prefixMap_, what getPrefixes returns
getPrefixes(prefixMap) ==
  {prefixMap[prefix] : prefix \in {p \in IpPrefixes : prefixMap[p] # Missing}}

\* the PrefixManager after construction with an empty persistent store
InitPrefix ==
  /\ prefixMap_ = [prefix \in IpPrefixes |-> Missing]
  /\ reference = {}

(***************************************************************************)
(* The MPLS helpers of Util.h.  A label is an int32_t.                     *)
(***************************************************************************)
TwentyBits == 1048576
MaxInt32 == 2147483647
MinInt32 == (0 - MaxInt32) - 1
\* the upper twelve bits of an int32_t, mplsLabel & 0xfff00000 shifted down
\* by twenty bits
UpperBits(mplsLabel) ==
  IF mplsLabel < 0
    THEN ((mplsLabel + MaxInt32) + 1) \div TwentyBits + 2048
    ELSE mplsLabel \div TwentyBits
\* the same with a mask of eleven bits, 0xffe00000
isMplsLabelValidOf21Bits(mplsLabel) == UpperBits(mplsLabel) \div 2 = 0
isMplsLabelValid(mplsLabel) == UpperBits(mplsLabel) = 0

\* folly::Optional with a value
Some(v) == [value |-> v]
\* thrift::MplsActionCode, and a value that is none of its codes
MplsActionCodes == {"PUSH", "SWAP", "PHP", "POP_AND_LOOKUP"}
UnknownCode == "UNKNOWN"

\* checkMplsAction: TRUE when no CHECK of it fails
checkMplsAction(action) ==
  CASE action.action = "PUSH" ->
         /\ action.swapLabel = Missing
         /\ action.pushLabels # Missing
         /\ action.pushLabels.value # <<>>
         /\ \A i \in 1..Len(action.pushLabels.value) :
              isMplsLabelValid(action.pushLabels.value[i])
    [] action.action = "SWAP" ->
         /\ action.swapLabel # Missing
         /\ isMplsLabelValid(action.swapLabel.value)
         /\ action.pushLabels = Missing
    [] action.action \in {"PHP", "POP_AND_LOOKUP"} ->
         /\ action.swapLabel = Missing
         /\ action.pushLabels = Missing
    [] OTHER -> FALSE

\* createMplsAction, before its sanity checks
createMplsAction(mplsActionCode, maybeSwapLabel, maybePushLabels) ==
  [action |-> mplsActionCode, swapLabel |-> maybeSwapLabel,
   pushLabels |-> maybePushLabels]

\* createNextHop
createNextHop(addr, maybeMplsAction) ==
  [address |-> addr, mplsAction |-> maybeMplsAction]

\* std::sort of the next hops of a route, which differ in their addresses
\* the order of two addresses
Addresses == <<"fe80::1", "fe80::2">>
AddressOrder(addr) == CHOOSE i \in 1..Len(Addresses) : Addresses[i] = addr

RECURSIVE sortNextHops(_)
sortNextHops(hops) ==
  IF hops = <<>>
    THEN <<>>
    ELSE LET least == CHOOSE i \in 1..Len(hops) :
                        \A j \in 1..Len(hops) :
                          AddressOrder(hops[i].address) <= AddressOrder(hops[j].address)
         IN <<hops[least]>> \o
              sortNextHops([i \in 1..(Len(hops) - 1) |->
                              IF i < least THEN hops[i] ELSE hops[i + 1]])

\* the sanity checks of createMplsRoute
checkMplsRoute(topLabel, hops) ==
  /\ isMplsLabelValid(topLabel)
  /\ \A i \in 1..Len(hops) : hops[i].mplsAction # Missing
\* createMplsRoute, after its sanity checks
createMplsRoute(topLabel, hops) ==
  [topLabel |-> topLabel, nextHops |-> sortNextHops(hops)]

\* nothing is built yet
InitMpls ==
  /\ mplsAction = Missing
  /\ nextHops = <<>>
  /\ mplsRoute = Missing
  /\ fatal = FALSE

\* no peer on the link yet
InitShake ==
  /\ nbrState = EmptyMap
  /\ wire = EmptyBag
  /\ quiet = FALSE
  /\ answers = 0

\* no metric vector compared yet
InitMetric ==
  /\ lVector = Missing
  /\ rVector = Missing
  /\ compareResult = None

InitExt ==
  /\ InitRate /\ InitRtt /\ InitKvClient /\ InitStore /\ InitPrefix /\ InitMpls
  /\ InitShake /\ InitMetric

(***************************************************************************)
(* The state machine.                                                      *)
(***************************************************************************)
\* the state after construction: no interface is tracked yet
Init ==
  /\ \E c \in Configs :
       /\ enableSpark2_ = c.enableSpark2
       /\ enableV4_ = c.enableV4
       /\ enableSubnetValidation_ = c.enableSubnetValidation
       /\ areas_ = c.areas
  /\ interfaceDb_ = EmptyMap
  /\ ifNameToHelloTimers_ = {}
  /\ neighbors_ = EmptyMap
  /\ spark2Neighbors_ = EmptyMap
  /\ allocatedLabels_ = {}
  /\ mySeqNum_ = 1
  /\ reported = NoEvents
  /\ invalidKeepalive = FALSE
  /\ sent = <<>>
  /\ stopped = FALSE
  /\ InitExt
  /\ aborted = FALSE
  /\ visited = EmptyMap

\* failed allocations leak at most MaxLeak labels below the local range
WithinLeakBound(allocated) ==
  \A l \in allocated : l >= kSrLocalRangeFirst - MaxLeak

\* history: the states of every Spark2 entry since its creation
Visit(table) ==
  [k \in AllNeighbors(table, Ifaces) |->
     IF Has(visited, k)
       THEN visited[k] \cup {table[k[1]][k[2]].state}
       ELSE {IDLE, table[k[1]][k[2]].state}]

\* a failed CHECK ends the process, and its memory with it
Crash ==
  /\ aborted' = TRUE
  /\ interfaceDb_' = EmptyMap
  /\ ifNameToHelloTimers_' = {}
  /\ neighbors_' = EmptyMap
  /\ spark2Neighbors_' = EmptyMap
  /\ allocatedLabels_' = {}
  /\ reported' = NoEvents
  /\ invalidKeepalive' = FALSE
  /\ visited' = EmptyMap
  /\ UNCHANGED <<cfgVars, mySeqNum_>>

\* processHelloPacket, step 3: a packet handled the legacy way
RecvHelloPacket(ifName, pkt) ==
  /\ ~aborted /\ ~stopped
  /\ sent' = <<>>
  /\ UNCHANGED <<stopped, extVars>>
  /\ Has(interfaceDb_, ifName)
  /\ ~(enableSpark2_ /\ pkt.helloMsg)
  /\ (pkt.restarting /\ Has(neighbors_[ifName], pkt.nodeName))
       => neighbors_[ifName][pkt.nodeName].numRecvRestarting
            < MaxRecvRestarting
  /\ LET r == processHelloPacket(ifName, pkt)
     IN  /\ WithinLeakBound(r.allocated)
         /\ neighbors_' = [neighbors_ EXCEPT ![ifName] = r.neighbors]
         /\ allocatedLabels_' = r.allocated
         /\ reported' = r.reported
  /\ invalidKeepalive' = sanityFailed(pkt)
  /\ UNCHANGED <<cfgVars, interfaceDb_, ifNameToHelloTimers_, spark2Neighbors_, mySeqNum_, aborted,
                 visited>>

\* processHelloPacket, step 2: a packet that carries a helloMsg
RecvHelloMsg(ifName, helloMsg) ==
  /\ ~aborted /\ ~stopped
  /\ sent' = <<>>
  /\ UNCHANGED <<stopped, extVars>>
  /\ Has(interfaceDb_, ifName)
  /\ enableSpark2_ /\ helloMsg.helloMsg
  /\ LET r == processHelloMsg(ifName, helloMsg)
     IN  IF r.aborted
           THEN Crash
           ELSE /\ WithinLeakBound(r.allocated)
                /\ spark2Neighbors_' =
                     [spark2Neighbors_ EXCEPT ![ifName] = r.neighbors]
                /\ allocatedLabels_' = r.allocated
                /\ reported' = r.reported
                /\ invalidKeepalive' = sanityFailed(helloMsg)
                /\ visited' = Visit(spark2Neighbors_')
                /\ UNCHANGED <<cfgVars, interfaceDb_, ifNameToHelloTimers_, neighbors_, mySeqNum_,
                               aborted>>

\* processHelloPacket, step 2: a packet that carries a heartbeatMsg
RecvHeartbeatMsg(ifName) ==
  /\ ~aborted /\ ~stopped
  /\ sent' = <<>>
  /\ UNCHANGED <<stopped, extVars>>
  /\ Has(interfaceDb_, ifName)
  /\ enableSpark2_
  /\ processHeartbeatMsg.aborted
  /\ Crash

\* processHelloPacket, step 2: a packet that carries a handshakeMsg
RecvHandshakeMsg(ifName, handshakeMsg) ==
  /\ ~aborted /\ ~stopped
  /\ sent' = <<>>
  /\ UNCHANGED <<stopped, extVars>>
  /\ Has(interfaceDb_, ifName)
  /\ enableSpark2_
  /\ LET r == processHandshakeMsg(ifName, handshakeMsg)
     IN  IF r.aborted
           THEN Crash
           ELSE /\ spark2Neighbors_' =
                     [spark2Neighbors_ EXCEPT ![ifName] = r.neighbors]
                /\ reported' = r.reported
                /\ invalidKeepalive' = FALSE
                /\ visited' = Visit(spark2Neighbors_')
                /\ UNCHANGED <<cfgVars, interfaceDb_, ifNameToHelloTimers_, neighbors_,
                               allocatedLabels_, mySeqNum_, aborted>>

\* the negotiate hold timer of a Spark2 neighbor expires
NegotiateTimeout(ifName, neighborName) ==
  /\ ~aborted /\ ~stopped
  /\ sent' = <<>>
  /\ UNCHANGED <<stopped, extVars>>
  /\ Has(spark2Neighbors_, ifName)
  /\ Has(spark2Neighbors_[ifName], neighborName)
  /\ spark2Neighbors_[ifName][neighborName].negotiateHoldTimer
  /\ LET r == processNegotiateTimeout(ifName, neighborName)
     IN  IF r.aborted
           THEN Crash
           ELSE /\ spark2Neighbors_' =
                     [spark2Neighbors_ EXCEPT ![ifName] = r.neighbors]
                /\ reported' = NoEvents
                /\ invalidKeepalive' = FALSE
                /\ visited' = Visit(spark2Neighbors_')
                /\ UNCHANGED <<cfgVars, interfaceDb_, ifNameToHelloTimers_, neighbors_,
                               allocatedLabels_, mySeqNum_, aborted>>

\* the hold timer of a legacy neighbor expires
NeighborHoldTimeout(ifName, neighborName) ==
  /\ ~aborted /\ ~stopped
  /\ sent' = <<>>
  /\ UNCHANGED <<stopped, extVars>>
  /\ Has(neighbors_, ifName)
  /\ Has(neighbors_[ifName], neighborName)
  /\ neighbors_[ifName][neighborName].holdTimer
  /\ LET r == processNeighborHoldTimeout(ifName, neighborName)
     IN  /\ neighbors_' = [neighbors_ EXCEPT ![ifName] = r.neighbors]
         /\ allocatedLabels_' = r.allocated
         /\ reported' = r.reported
  /\ invalidKeepalive' = FALSE
  /\ UNCHANGED <<cfgVars, interfaceDb_, ifNameToHelloTimers_, spark2Neighbors_, mySeqNum_, aborted,
                 visited>>

\* the hello timer of an interface fires, or a solicited reply scheduled by
\* a hello handler runs: sendHelloPacket
SendHelloPacket(ifName) ==
  /\ ~aborted /\ ~stopped
  /\ UNCHANGED <<stopped, extVars>>
  /\ Has(interfaceDb_, ifName)
  /\ mySeqNum_ < MaxMySeq
  /\ LET r == sendHelloPacket(ifName, FALSE, mySeqNum_)
     IN  /\ sent' = r.sent
         /\ mySeqNum_' = r.mySeqNum
  /\ reported' = NoEvents
  /\ invalidKeepalive' = FALSE
  /\ UNCHANGED <<cfgVars, interfaceDb_, ifNameToHelloTimers_, neighbors_, spark2Neighbors_,
                 allocatedLabels_, aborted, visited>>

\* LinkMonitor sends a new interface database
InterfaceDbUpdate(ifDb) ==
  /\ ~aborted /\ ~stopped
  /\ sent' = <<>>
  /\ UNCHANGED <<stopped, extVars>>
  /\ LET r == processRequestMsg(ifDb)
     IN  /\ interfaceDb_' = r.interfaceDb
         /\ ifNameToHelloTimers_' = r.helloTimers
         /\ neighbors_' = r.neighbors
         /\ spark2Neighbors_' = r.spark2Neighbors
         /\ allocatedLabels_' = r.allocated
         /\ reported' = r.reported
  /\ invalidKeepalive' = FALSE
  /\ visited' = Visit(spark2Neighbors_')
  /\ UNCHANGED <<cfgVars, mySeqNum_, aborted>>

Next ==
  \/ \E i \in LinkIfaces : \E pkt \in LegacyPackets(LinkNodes) :
       RecvHelloPacket(i, pkt)
  \/ \E i \in LinkIfaces : \E pkt \in Hellos(LinkNodes, TRUE) :
       RecvHelloMsg(i, pkt)
  \/ \E i \in LinkIfaces : RecvHeartbeatMsg(i)
  \/ \E i \in LinkIfaces : \E pkt \in Handshakes(LinkNodes) :
       RecvHandshakeMsg(i, pkt)
  \/ \E i \in LinkIfaces : \E n \in LinkNodes : NegotiateTimeout(i, n)
  \/ \E i \in LinkIfaces : \E n \in LinkNodes : NeighborHoldTimeout(i, n)
  \/ \E i \in LinkIfaces : SendHelloPacket(i)
  \/ \E ifDb \in IfDbs(LinkIfaces) : InterfaceDbUpdate(ifDb)

\* every configuration, one link, every packet
Spec == Init /\ [][Next]_vars

\* the same, where the event loop runs a timer that stays due: the negotiate
\* hold timer of a neighbor fires unless it is cancelled
SpecNegotiate ==
  /\ Spec
  /\ \A i \in LinkIfaces : \A n \in LinkNodes : WF_vars(NegotiateTimeout(i, n))


(***************************************************************************)
(* Label allocation over several links: both interfaces, one neighbor on   *)
(* each, both neighbor tables, with the hellos that create neighbors, make *)
(* them adjacent and drop them again.                                      *)
(***************************************************************************)
LabelHellos(helloMsg) ==
  {HelloFields(helloMsg, n, myDomainName_, lowestSupportedVersion, 0, infos,
               FALSE, NoAreas, "a") :
     n \in LinkNodes, infos \in {EmptyMap, [x \in {myNodeName_} |-> 0]}}

LabelHandshakes ==
  {[nodeName |-> n, isAdjEstablished |-> TRUE, v4 |-> "a"] : n \in LinkNodes}

\* interface databases whose listed interfaces are all usable
LabelIfDbs ==
  {d \in IfDbs(Ifaces) :
     \A i \in Ifaces : d[i] = NotListed \/ isValidInterface(d[i])}

InitLabels ==
  /\ enableSpark2_ = TRUE
  /\ enableV4_ = FALSE
  /\ enableSubnetValidation_ = FALSE
  /\ areas_ = NoAreas
  /\ interfaceDb_ = EmptyMap
  /\ ifNameToHelloTimers_ = {}
  /\ neighbors_ = EmptyMap
  /\ spark2Neighbors_ = EmptyMap
  /\ allocatedLabels_ = {}
  /\ mySeqNum_ = 1
  /\ reported = NoEvents
  /\ invalidKeepalive = FALSE
  /\ sent = <<>>
  /\ stopped = FALSE
  /\ InitExt
  /\ aborted = FALSE
  /\ visited = EmptyMap

NextLabels ==
  \/ \E i \in Ifaces : \E pkt \in LabelHellos(FALSE) : RecvHelloPacket(i, pkt)
  \/ \E i \in Ifaces : \E pkt \in LabelHellos(TRUE) : RecvHelloMsg(i, pkt)
  \/ \E i \in Ifaces : \E pkt \in LabelHandshakes : RecvHandshakeMsg(i, pkt)
  \/ \E i \in Ifaces : \E n \in LinkNodes : NegotiateTimeout(i, n)
  \/ \E i \in Ifaces : \E n \in LinkNodes : NeighborHoldTimeout(i, n)
  \/ \E ifDb \in LabelIfDbs : InterfaceDbUpdate(ifDb)

SpecLabels == InitLabels /\ [][NextLabels]_vars

\* the same links with v4 enabled or not, and interface updates that list
\* an interface as down, without a v6 link-local address or without a v4
\* address as well
InitIfaces ==
  /\ enableSpark2_ = TRUE
  /\ enableV4_ \in BOOLEAN
  /\ enableSubnetValidation_ = FALSE
  /\ areas_ = NoAreas
  /\ interfaceDb_ = EmptyMap
  /\ ifNameToHelloTimers_ = {}
  /\ neighbors_ = EmptyMap
  /\ spark2Neighbors_ = EmptyMap
  /\ allocatedLabels_ = {}
  /\ mySeqNum_ = 1
  /\ reported = NoEvents
  /\ invalidKeepalive = FALSE
  /\ sent = <<>>
  /\ stopped = FALSE
  /\ InitExt
  /\ aborted = FALSE
  /\ visited = EmptyMap

NextIfaces ==
  \/ \E i \in Ifaces : \E pkt \in LabelHellos(FALSE) : RecvHelloPacket(i, pkt)
  \/ \E i \in Ifaces : \E pkt \in LabelHellos(TRUE) : RecvHelloMsg(i, pkt)
  \/ \E i \in Ifaces : \E pkt \in LabelHandshakes : RecvHandshakeMsg(i, pkt)
  \/ \E i \in Ifaces : \E n \in LinkNodes : NeighborHoldTimeout(i, n)
  \/ \E ifDb \in IfDbs(Ifaces) : InterfaceDbUpdate(ifDb)

SpecIfaces == InitIfaces /\ [][NextIfaces]_vars


(***************************************************************************)
(* The neighbor FSM on its own: two Spark2 neighbors, each in any state,   *)
(* and getNextState applied to any event.                                  *)
(***************************************************************************)
InitFsm ==
  /\ enableSpark2_ = TRUE
  /\ enableV4_ = FALSE
  /\ enableSubnetValidation_ = FALSE
  /\ areas_ = NoAreas
  /\ interfaceDb_ = [i \in Ifaces |-> IF i = "if1" THEN 0 ELSE 1]
  /\ ifNameToHelloTimers_ = Ifaces
  /\ neighbors_ = [i \in Ifaces |-> EmptyMap]
  /\ \E s \in [Ifaces -> States] :
       /\ spark2Neighbors_ =
            [i \in Ifaces |->
               [n \in LinkNodes |->
                  [Spark2Neighbor(kSrLocalRangeFirst + interfaceDb_[i], 0)
                     EXCEPT !.state = s[i]]]]
       /\ visited = [k \in Ifaces \X LinkNodes |-> {s[k[1]]}]
  /\ allocatedLabels_ = {kSrLocalRangeFirst + interfaceDb_[i] : i \in Ifaces}
  /\ mySeqNum_ = 1
  /\ reported = NoEvents
  /\ invalidKeepalive = FALSE
  /\ sent = <<>>
  /\ stopped = FALSE
  /\ InitExt
  /\ aborted = FALSE

\* state = getNextState(state, event), as every handler does it
ApplyEvent(ifName, neighborName, event) ==
  /\ ~aborted /\ ~stopped
  /\ sent' = <<>>
  /\ UNCHANGED <<stopped, extVars>>
  /\ Has(spark2Neighbors_, ifName)
  /\ Has(spark2Neighbors_[ifName], neighborName)
  /\ LET neighbor == spark2Neighbors_[ifName][neighborName]
         nextState == getNextState(neighbor.state, event)
     IN  IF nextState = UNEXPECTED
           THEN Crash
           ELSE /\ spark2Neighbors_' =
                     [spark2Neighbors_ EXCEPT ![ifName][neighborName].state =
                                                nextState]
                /\ reported' = NoEvents
                /\ invalidKeepalive' = FALSE
                /\ visited' = Visit(spark2Neighbors_')
                /\ UNCHANGED <<cfgVars, interfaceDb_, ifNameToHelloTimers_, neighbors_,
                               allocatedLabels_, mySeqNum_, aborted>>

NextFsm ==
  \E i \in Ifaces : \E n \in LinkNodes : \E e \in FsmEvents :
    ApplyEvent(i, n, e)

SpecFsm == InitFsm /\ [][NextFsm]_vars


(***************************************************************************)
(* The rate limiter on its own: packets arrive for any time series at any  *)
(* time.                                                                   *)
(***************************************************************************)
\* neighbor discovery proper before the first interface update
InitSparkIdle ==
  /\ enableSpark2_ = TRUE
  /\ enableV4_ = FALSE
  /\ enableSubnetValidation_ = FALSE
  /\ areas_ = NoAreas
  /\ interfaceDb_ = EmptyMap
  /\ ifNameToHelloTimers_ = {}
  /\ neighbors_ = EmptyMap
  /\ spark2Neighbors_ = EmptyMap
  /\ allocatedLabels_ = {}
  /\ mySeqNum_ = 1
  /\ reported = NoEvents
  /\ invalidKeepalive = FALSE
  /\ aborted = FALSE
  /\ visited = EmptyMap
  /\ sent = <<>>
  /\ stopped = FALSE

\* parsePacket up to the rate limit: a packet whose (ifName, addr) hashes
\* to index is received
ParsePacket(index) ==
  /\ LET r == shouldProcessHelloPacket(index)
     IN  /\ timeSeriesVector_' = [timeSeriesVector_ EXCEPT ![index] = r.series]
         /\ processed' = r.process
  /\ UNCHANGED <<now, sparkVars, rttVars, kvVars, storeVars, prefixVars,
                 mplsVars, shakeVars,
                 metricVars>>

\* the steady clock advances
Tick ==
  /\ now < MaxNow
  /\ now' = now + 1
  /\ UNCHANGED <<timeSeriesVector_, processed, sparkVars, rttVars, kvVars,
                 storeVars, prefixVars, mplsVars, shakeVars, metricVars>>

InitRateLimit == InitSparkIdle /\ InitExt

NextRateLimit ==
  \/ \E index \in 0 .. kNumTimeSeries - 1 : ParsePacket(index)
  \/ Tick

SpecRateLimit == InitRateLimit /\ [][NextRateLimit]_vars


(***************************************************************************)
(* The RTT measurement on its own: hellos of one neighbor with any         *)
(* timestamps.                                                             *)
(***************************************************************************)
\* processHelloPacket, the part that deduces the RTT, for a hello that
\* reflects the local node with these timestamps
MeasureRtt(t) ==
  /\ LET r == measureRtt(t)
     IN  /\ tstamps' = t
         /\ stepDetectorAdded' = r.added
         /\ rttLatest' = IF r.added THEN r.rtt ELSE rttLatest
  /\ UNCHANGED <<sparkVars, rateVars, kvVars, storeVars, prefixVars,
                 mplsVars, shakeVars,
                 metricVars>>

InitMeasure == InitSparkIdle /\ InitExt

NextMeasure ==
  \E a, b, c, d \in Timestamps : MeasureRtt(Tstamps(a, b, c, d))

SpecRtt == InitMeasure /\ [][NextMeasure]_vars


(***************************************************************************)
(* Shutdown: interfaces come and go, hellos are sent, neighbors are heard, *)
(* and the instance is stopped.                                            *)
(***************************************************************************)
\* Spark::stop
Stop ==
  /\ ~aborted /\ ~stopped
  /\ \E ifNames \in Orders(DOMAIN interfaceDb_) :
       LET r == stop(ifNames)
       IN  /\ sent' = r.sent
           /\ mySeqNum_' = r.mySeqNum
  /\ stopped' = TRUE
  /\ reported' = NoEvents
  /\ invalidKeepalive' = FALSE
  /\ UNCHANGED <<cfgVars, interfaceDb_, ifNameToHelloTimers_, neighbors_, spark2Neighbors_,
                 allocatedLabels_, aborted, visited, extVars>>

NextStop ==
  \/ \E ifDb \in LabelIfDbs : InterfaceDbUpdate(ifDb)
  \/ \E i \in Ifaces : SendHelloPacket(i)
  \/ \E i \in Ifaces : \E pkt \in LabelHellos(TRUE) : RecvHelloMsg(i, pkt)
  \/ Stop

SpecStop == InitLabels /\ [][NextStop]_vars


(***************************************************************************)
(* The KvStore client on its own: a module persists, sets and unsets keys  *)
(* of the default area, publications arrive from the KvStore, and the      *)
(* timers fire.                                                            *)
(***************************************************************************)
\* the versions stay within the bounds
WithinKvBound(c) ==
  \A area \in KvAreas : \A key \in KvKeys :
    /\ c.persistedKeyVals[area][key] # Missing =>
         /\ c.persistedKeyVals[area][key].version <= MaxVersion
         /\ c.persistedKeyVals[area][key].ttlVersion <= MaxTtlVersion
    /\ c.keyTtlBackoffs[area][key] # Missing =>
         /\ c.keyTtlBackoffs[area][key].value.version <= MaxVersion
         /\ c.keyTtlBackoffs[area][key].value.ttlVersion <= MaxTtlVersion

\* a handler of the client ran and left the client as c
Handled(c) ==
  /\ ~kvAborted
  /\ WithinKvBound(c)
  /\ persistedKeyVals_' = c.persistedKeyVals
  /\ keyTtlBackoffs_' = c.keyTtlBackoffs
  /\ keysToAdvertise_' = c.keysToAdvertise
  /\ backoffs_' = c.backoffs
  /\ invoked' = c.invoked
  /\ setRequests' = c.setRequests
  /\ ignored' = c.ignored
  /\ kvAborted' = c.thrown
  /\ advertiseKeyValsTimer_' = c.advertiseKeyValsTimer
  /\ UNCHANGED <<sparkVars, rateVars, rttVars, storeVars, prefixVars,
                 mplsVars, shakeVars,
                 metricVars>>

\* what a KvStore may hold for a key: always a record with a value
StoreValues ==
  {createThriftValue(version, originatorId, "a", kTtlInfinity, 0) :
     version \in 1 .. MaxVersion - 1, originatorId \in {nodeId_, "node2"}}
\* what getKey finds in the KvStore
MaybeValues == StoreValues \cup {Missing}
\* the records a publication may carry for a key
RcvdValues ==
  {createThriftValue(version, originatorId, value, kTtlInfinity, ttlVersion) :
     version \in 1 .. MaxVersion - 1, originatorId \in {nodeId_, "node2"},
     value \in {"a", None}, ttlVersion \in 0 .. 1}
\* the records of the publications that carry two keys
RcvdValuesOfTwo ==
  {v \in RcvdValues : v.version = MaxVersion - 1 /\ v.ttlVersion = 0}
\* the records a publication may carry for a key of another node
RcvdValuesOfOther == {v \in RcvdValuesOfTwo : v.originatorId = "node2"}
\* the key-values of a publication: none, one key of the client's, one
\* other key, or one of each
KeyVals ==
  {[k \in {} |-> None]}
    \cup [{"k1"} -> RcvdValues]
    \cup [{"k2"} -> RcvdValuesOfOther]
    \cup {[k \in KvKeys |-> IF k = "k1" THEN v ELSE w] :
             v \in RcvdValuesOfTwo, w \in RcvdValuesOfOther}
\* the key-values of the publications that tell of an expired key
KeyValsOfExpiry == {[k \in {} |-> None]} \cup [{"k2"} -> RcvdValuesOfOther]
Publications ==
  {Publication(kDefaultArea, keyVals, {}) : keyVals \in KeyVals}
    \cup {Publication(kDefaultArea, keyVals, {"k1"}) :
             keyVals \in KeyValsOfExpiry}
\* the areas the client was called with: the ones its maps have entries of
UsedAreas == {kDefaultArea}
Failures == {{}, {kDefaultArea}}

PersistKey(key, value, ttl, maybeValue, areas, failed) ==
  /\ Handled(persistKey(Client, key, value, ttl, kDefaultArea, maybeValue,
                        areas, failed))
  /\ UNCHANGED <<keyCallbacks_, kvCallback_>>

SetKey(key, value, version, ttl, maybeValue) ==
  /\ Handled(setKey(Client, key, value, version, ttl, kDefaultArea, maybeValue))
  /\ UNCHANGED <<keyCallbacks_, kvCallback_>>

UnsetKey(key) ==
  /\ Handled(unsetKey(Client, key, kDefaultArea))
  /\ UNCHANGED <<keyCallbacks_, kvCallback_>>

ClearKey(key, keyValue, ttl, maybeValue) ==
  /\ Handled(clearKey(Client, key, keyValue, ttl, kDefaultArea, maybeValue))
  /\ UNCHANGED <<keyCallbacks_, kvCallback_>>

\* KvStoreClientInternal::subscribeKey, without fetching the value
SubscribeKey(key) ==
  /\ Handled(Client)
  /\ keyCallbacks_' = keyCallbacks_ \cup {key}
  /\ UNCHANGED kvCallback_

\* KvStoreClientInternal::unsubscribeKey
UnsubscribeKey(key) ==
  /\ Handled(Client)
  /\ keyCallbacks_' = keyCallbacks_ \ {key}
  /\ UNCHANGED kvCallback_

\* the fiber of the constructor read a publication from the KvStore
ProcessPublication(publication, areas, failed) ==
  /\ Handled(processPublication(Client, publication, areas, failed))
  /\ UNCHANGED <<keyCallbacks_, kvCallback_>>

\* advertiseKeyValsTimer_ fires
AdvertiseKeyValsTimer(areas, failed) ==
  /\ advertiseKeyValsTimer_
  /\ Handled(advertisePendingKeys(
               [Client EXCEPT !.advertiseKeyValsTimer = FALSE], areas, failed))
  /\ UNCHANGED <<keyCallbacks_, kvCallback_>>

\* ttlTimer_ fires
TtlTimer ==
  /\ Handled(advertiseTtlUpdates(Client))
  /\ UNCHANGED <<keyCallbacks_, kvCallback_>>

\* time passes until the backoff of a key allows the next try
BackoffElapses(key) ==
  /\ backoffs_[key] = Backoff(FALSE)
  /\ Handled([Client EXCEPT !.backoffs[key] = Backoff(TRUE)])
  /\ UNCHANGED <<keyCallbacks_, kvCallback_>>

\* time passes until the TTL of a key is due for a refresh
TtlBackoffElapses(key) ==
  /\ keyTtlBackoffs_[kDefaultArea][key] # Missing
  /\ ~keyTtlBackoffs_[kDefaultArea][key].canTryNow
  /\ Handled([Client EXCEPT
                !.keyTtlBackoffs[kDefaultArea][key].canTryNow = TRUE])
  /\ UNCHANGED <<keyCallbacks_, kvCallback_>>

InitKv == InitSparkIdle /\ InitExt

\* the keys the module that owns the client persists, sets and clears
OwnKeys == {"k1"}

NextKv ==
  \/ \E key \in OwnKeys, value \in KvData, ttl \in Ttls, failed \in Failures :
       \E areas \in Orders(UsedAreas) :
         \* getKey is called for a key that is not persisted
         \E maybeValue \in IF persistedKeyVals_[kDefaultArea][key] = Missing
                              THEN MaybeValues ELSE {Missing} :
           /\ PersistKey(key, value, ttl, maybeValue, areas, failed)
           /\ UNCHANGED <<ttlSent, checkVars>>
  \/ \E key \in OwnKeys, value \in KvData, version \in 0 .. 1 :
       \* getKey is called when no version is given
       \E maybeValue \in IF version = 0 THEN MaybeValues ELSE {Missing} :
         /\ SetKey(key, value, version, FiniteTtl, maybeValue)
         /\ UNCHANGED <<ttlSent, checkVars>>
  \/ \E key \in OwnKeys : UnsetKey(key) /\ UNCHANGED <<ttlSent, checkVars>>
  \/ \E key \in OwnKeys, keyValue \in {"a"}, ttl \in {kTtlInfinity},
        maybeValue \in MaybeValues :
       /\ ClearKey(key, keyValue, ttl, maybeValue)
       /\ UNCHANGED <<ttlSent, checkVars>>
  \/ \E key \in OwnKeys : SubscribeKey(key) /\ UNCHANGED <<ttlSent, checkVars>>
  \/ \E key \in OwnKeys : UnsubscribeKey(key) /\ UNCHANGED <<ttlSent, checkVars>>
  \/ \E publication \in Publications, failed \in Failures :
       \E areas \in Orders(UsedAreas) :
         /\ ProcessPublication(publication, areas, failed)
         /\ UNCHANGED <<ttlSent, checkVars>>
  \/ \E failed \in Failures : \E areas \in Orders(UsedAreas) :
       /\ AdvertiseKeyValsTimer(areas, failed)
       /\ UNCHANGED <<ttlSent, checkVars>>
  \/ TtlTimer /\ UNCHANGED <<ttlSent, checkVars>>
  \/ \E key \in OwnKeys : BackoffElapses(key) /\ UNCHANGED <<ttlSent, checkVars>>
  \/ \E key \in OwnKeys : TtlBackoffElapses(key) /\ UNCHANGED <<ttlSent, checkVars>>

SpecKv == InitKv /\ [][NextKv]_vars


(***************************************************************************)
(* The KvStore stream on its own: a subscriber comes and goes while keys   *)
(* are set through KvStoreWrapper.                                         *)
(***************************************************************************)
\* OpenrCtrlHandler::subscribeKvStore
SubscribeKvStore ==
  /\ publishers = 0
  /\ publishers' = 1
  /\ received' = <<>>
  /\ UNCHANGED <<kvStoreDb, sparkVars, rateVars, rttVars, kvVars, prefixVars,
                 mplsVars, shakeVars,
                 metricVars>>

\* the subscriber cancels its subscription
CancelSubscription ==
  /\ publishers = 1
  /\ publishers' = 0
  /\ UNCHANGED <<kvStoreDb, received, sparkVars, rateVars, rttVars, kvVars,
                 prefixVars, mplsVars, shakeVars, metricVars>>

\* KvStoreWrapper::setKey
StoreSetKey(key, value) ==
  /\ kvStoreDb' = IF accepted(kvStoreDb[key], value)
                    THEN [kvStoreDb EXCEPT ![key] = value]
                    ELSE kvStoreDb
  /\ received' = IF accepted(kvStoreDb[key], value) /\ publishers > 0
                   THEN Append(received,
                               Publication(kDefaultArea,
                                           [k \in {key} |-> value], {}))
                   ELSE received
  /\ UNCHANGED <<publishers, sparkVars, rateVars, rttVars, kvVars, prefixVars,
                 mplsVars, shakeVars,
                 metricVars>>

InitKvStore == InitSparkIdle /\ InitExt

NextKvStore ==
  \/ SubscribeKvStore
  \/ CancelSubscription
  \/ \E key \in StoreKeys, value \in SetValues : StoreSetKey(key, value)

SpecKvStore == InitKvStore /\ [][NextKvStore]_vars


(***************************************************************************)
(* The PrefixManager on its own: requests to advertise, withdraw and sync  *)
(* prefixes in any order.                                                  *)
(***************************************************************************)
\* advertisePrefixes: an entry of a listed prefix is updated
AdvertisePrefixes(prefixes) ==
  /\ prefixMap_' = addOrUpdatePrefixes(prefixMap_, prefixes)
  /\ reference' =
       {e \in reference : \A f \in prefixes : f.prefix # e.prefix} \cup prefixes
  /\ UNCHANGED <<sparkVars, rateVars, rttVars, kvVars, storeVars,
                 mplsVars, shakeVars,
                 metricVars>>

\* withdrawPrefixes, of entries that are advertised
WithdrawPrefixes(prefixes) ==
  /\ prefixes \subseteq getPrefixes(prefixMap_)
  /\ prefixMap_' = removePrefixes(prefixMap_, prefixes)
  /\ reference' = reference \ prefixes
  /\ UNCHANGED <<sparkVars, rateVars, rttVars, kvVars, storeVars,
                 mplsVars, shakeVars,
                 metricVars>>

\* withdrawPrefixesByType
WithdrawPrefixesByType(type) ==
  /\ prefixMap_' = removePrefixesByType(prefixMap_, type)
  /\ reference' = {e \in reference : e.type # type}
  /\ UNCHANGED <<sparkVars, rateVars, rttVars, kvVars, storeVars,
                 mplsVars, shakeVars,
                 metricVars>>

\* syncPrefixesByType, with entries of the type
SyncPrefixesByType(type, prefixes) ==
  /\ \A e \in prefixes : e.type = type
  /\ prefixMap_' = syncPrefixesByType(prefixMap_, type, prefixes)
  /\ reference' = {e \in reference : e.type # type} \cup prefixes
  /\ UNCHANGED <<sparkVars, rateVars, rttVars, kvVars, storeVars,
                 mplsVars, shakeVars,
                 metricVars>>

InitPrefixManager == InitSparkIdle /\ InitExt

NextPrefixManager ==
  \/ \E prefixes \in PrefixLists : AdvertisePrefixes(prefixes)
  \/ \E prefixes \in PrefixLists : WithdrawPrefixes(prefixes)
  \/ \E type \in PrefixTypes : WithdrawPrefixesByType(type)
  \/ \E type \in PrefixTypes, prefixes \in PrefixLists :
       SyncPrefixesByType(type, prefixes)

SpecPrefixManager == InitPrefixManager /\ [][NextPrefixManager]_vars


(***************************************************************************)
(* The MPLS helpers on their own: a caller builds actions, next hops and   *)
(* routes from any labels, until a CHECK aborts the process.               *)
(***************************************************************************)
\* the labels a caller passes: around the ends of twenty bits and of int32_t
Labels == {MinInt32, 0 - 1, 0, TwentyBits - 1, TwentyBits, MaxInt32}
SwapLabels == {0 - 1, TwentyBits - 1, TwentyBits}
PushLabels == {16, TwentyBits}
MaxPushLabels == 2
MaxNextHops == 2
MaybeSwapLabels == {Missing} \cup {Some(label) : label \in SwapLabels}
MaybePushLabels ==
  {Missing} \cup
  {Some(labels) : labels \in UNION {[1..n -> PushLabels] : n \in 0..MaxPushLabels}}

CreateMplsAction(mplsActionCode, maybeSwapLabel, maybePushLabels) ==
  /\ ~fatal
  /\ LET action == createMplsAction(mplsActionCode, maybeSwapLabel, maybePushLabels)
     IN IF checkMplsAction(action)
          THEN mplsAction' = action /\ UNCHANGED fatal
          ELSE fatal' = TRUE /\ UNCHANGED mplsAction
  /\ UNCHANGED <<nextHops, mplsRoute>>
  /\ UNCHANGED <<sparkVars, rateVars, rttVars, kvVars, storeVars, prefixVars,
                 shakeVars, metricVars>>

\* createNextHop with the action built last, or with none
CreateNextHop(addr, maybeMplsAction) ==
  /\ ~fatal
  /\ Len(nextHops) < MaxNextHops
  /\ \A i \in 1..Len(nextHops) : nextHops[i].address # addr
  /\ nextHops' = Append(nextHops, createNextHop(addr, maybeMplsAction))
  /\ UNCHANGED <<mplsAction, mplsRoute, fatal>>
  /\ UNCHANGED <<sparkVars, rateVars, rttVars, kvVars, storeVars, prefixVars,
                 shakeVars, metricVars>>

\* createMplsRoute with the next hops built
CreateMplsRoute(topLabel) ==
  /\ ~fatal
  /\ IF checkMplsRoute(topLabel, nextHops)
       THEN mplsRoute' = createMplsRoute(topLabel, nextHops) /\ UNCHANGED fatal
       ELSE fatal' = TRUE /\ UNCHANGED mplsRoute
  /\ nextHops' = <<>>
  /\ UNCHANGED mplsAction
  /\ UNCHANGED <<sparkVars, rateVars, rttVars, kvVars, storeVars, prefixVars,
                 shakeVars, metricVars>>

InitMplsHelpers == InitSparkIdle /\ InitExt

NextMplsHelpers ==
  \/ \E mplsActionCode \in MplsActionCodes \cup {UnknownCode},
        maybeSwapLabel \in MaybeSwapLabels, maybePushLabels \in MaybePushLabels :
       CreateMplsAction(mplsActionCode, maybeSwapLabel, maybePushLabels)
  \/ \E i \in 1..Len(Addresses), maybeMplsAction \in {Missing, mplsAction} :
       CreateNextHop(Addresses[i], maybeMplsAction)
  \/ \E topLabel \in Labels : CreateMplsRoute(topLabel)

SpecMplsHelpers == InitMplsHelpers /\ [][NextMplsHelpers]_vars


(***************************************************************************)
(* Properties.                                                             *)
(***************************************************************************)
Spark2Keys(table) == AllNeighbors(table, Ifaces)

\* the state of a Spark2 entry, IDLE for an entry that does not exist (yet)
StateOf(table, k) ==
  IF k \in Spark2Keys(table) THEN table[k[1]][k[2]].state ELSE IDLE

\* C1: a Spark2 neighbor is ESTABLISHED only after it has been in WARM and
\* in NEGOTIATE since its creation in IDLE: NEGOTIATE is entered from WARM
\* only, and ESTABLISHED is entered from a state other than RESTART only
\* from NEGOTIATE, by a handshake message.
C1_EstablishedThroughWarmNegotiate ==
  [][\A k \in Spark2Keys(spark2Neighbors_') :
       LET old == StateOf(spark2Neighbors_, k)
           new == StateOf(spark2Neighbors_', k)
       IN  /\ new = ESTABLISHED
                => {IDLE, WARM, NEGOTIATE} \subseteq visited'[k]
           /\ (new = NEGOTIATE /\ old # NEGOTIATE)
                => (k \in Spark2Keys(spark2Neighbors_) /\ old = WARM)
           /\ (new = ESTABLISHED /\ old \notin {ESTABLISHED, RESTART})
                => /\ k \in Spark2Keys(spark2Neighbors_)
                   /\ old = NEGOTIATE
                   /\ \E pkt \in Handshakes(Nodes) :
                        RecvHandshakeMsg(k[1], pkt)]_vars

\* a neighbor has just been established by a handshake
C1_Witness ==
  \E k \in Spark2Keys(spark2Neighbors_) :
    /\ StateOf(spark2Neighbors_, k) = ESTABLISHED
    /\ visited[k] = {IDLE, WARM, NEGOTIATE, ESTABLISHED}
    /\ reported # NoEvents

\* the FSM table of the specification; Undefined stands for its dashes
Undefined == "undefined"
FsmTable(state, event) ==
  CASE state = IDLE /\ event = HELLO_RCVD_INFO -> WARM
    [] state = IDLE /\ event = HELLO_RCVD_NO_INFO -> WARM
    [] state = WARM /\ event = HELLO_RCVD_INFO -> NEGOTIATE
    [] state = NEGOTIATE /\ event = HANDSHAKE_RCVD -> ESTABLISHED
    [] state = NEGOTIATE /\ event = NEGOTIATE_TIMER_EXPIRE -> WARM
    [] state = ESTABLISHED /\ event = HELLO_RCVD_NO_INFO -> IDLE
    [] state = ESTABLISHED /\ event = HELLO_RCVD_RESTART -> RESTART
    [] state = ESTABLISHED /\ event = HEARTBEAT_RCVD -> ESTABLISHED
    [] state = ESTABLISHED /\ event = HEARTBEAT_TIMER_EXPIRE -> IDLE
    [] state = RESTART /\ event = HELLO_RCVD_INFO -> ESTABLISHED
    [] state = RESTART /\ event = GR_TIMER_EXPIRE -> IDLE
    [] OTHER -> Undefined

\* C2: getNextState follows the FSM table of the specification: for every
\* state and event with an entry the neighbor moves to that entry, and for
\* every pair without an entry getNextState fails.
C2_GetNextStateIsFsmTable ==
  [][\A i \in Ifaces : \A n \in LinkNodes : \A e \in FsmEvents :
       ApplyEvent(i, n, e)
         => LET want == FsmTable(spark2Neighbors_[i][n].state, e)
            IN  IF want = Undefined
                  THEN aborted'
                  ELSE ~aborted' /\ spark2Neighbors_'[i][n].state = want]_vars

\* a neighbor in RESTART has been moved to IDLE by GR_TIMER_EXPIRE
C2_Witness ==
  /\ ~aborted
  /\ \E k \in Spark2Keys(spark2Neighbors_) :
       /\ visited[k] = {RESTART, IDLE}
       /\ StateOf(spark2Neighbors_, k) = IDLE

LegacyKeys == AllNeighbors(neighbors_, Ifaces)

\* the events of a type among those the last handler reported
Reported(eventType) ==
  {e \in BagToSet(reported) : e.eventType = eventType}

\* C3: every Spark2 neighbor in ESTABLISHED and every adjacent legacy
\* neighbor has a timer armed that will report it NEIGHBOR_DOWN and remove
\* it when no further packet arrives: entering ESTABLISHED arms a hold
\* timer.
C3_AdjacencyHasHoldTimer ==
  /\ \A k \in Spark2Keys(spark2Neighbors_) :
       LET neighbor == spark2Neighbors_[k[1]][k[2]]
       IN  neighbor.state = ESTABLISHED
             => (neighbor.negotiateTimer \/ neighbor.negotiateHoldTimer)
  /\ \A k \in LegacyKeys :
       LET neighbor == neighbors_[k[1]][k[2]]
       IN  neighbor.isAdjacent => neighbor.holdTimer

\* C4: a hello with restarting = true moves a Spark2 neighbor in
\* ESTABLISHED to RESTART, keeps it tracked and reports no NEIGHBOR_DOWN.
C4_RestartingHelloEntersRestart ==
  [][\A i \in Ifaces : \A pkt \in GoodHellos(Nodes, TRUE) :
       (/\ pkt.restarting
        /\ StateOf(spark2Neighbors_, <<i, pkt.nodeName>>) = ESTABLISHED
        /\ RecvHelloMsg(i, pkt))
         => /\ <<i, pkt.nodeName>> \in Spark2Keys(spark2Neighbors_')
            /\ StateOf(spark2Neighbors_', <<i, pkt.nodeName>>) = RESTART
            /\ \A e \in BagToSet(reported') :
                 e.eventType # NEIGHBOR_DOWN]_vars

\* C5: a step reports NEIGHBOR_UP for a Spark2 neighbor exactly once when
\* the neighbor moves from NEGOTIATE to ESTABLISHED, and in no other case.
C5_UpExactlyOnEstablish ==
  [][LET ups == {e \in BagToSet(reported') :
                   e.eventType = NEIGHBOR_UP /\ e.table = "spark2"}
         entered ==
           {k \in Spark2Keys(spark2Neighbors_) \cap
                    Spark2Keys(spark2Neighbors_') :
              /\ StateOf(spark2Neighbors_, k) = NEGOTIATE
              /\ StateOf(spark2Neighbors_', k) = ESTABLISHED}
     IN  /\ \A e \in ups :
              /\ CopiesIn(e, reported') = 1
              /\ <<e.ifName, e.nodeName>> \in entered
         /\ \A k \in entered :
              Cardinality({e \in ups :
                             e.ifName = k[1] /\ e.nodeName = k[2]}) = 1]_vars

\* a handshake has just established a neighbor and reported it
C5_Witness ==
  \E e \in Reported(NEIGHBOR_UP) :
    /\ e.table = "spark2"
    /\ StateOf(spark2Neighbors_, <<e.ifName, e.nodeName>>) = ESTABLISHED

\* the labels of all tracked neighbors, legacy and Spark2, as a bag
HeldLabels ==
  LET held == {<<"legacy", k>> : k \in LegacyKeys}
                \cup {<<"spark2", k>> : k \in Spark2Keys(spark2Neighbors_)}
      labelOf(h) ==
        IF h[1] = "legacy" THEN neighbors_[h[2][1]][h[2][2]].label
        ELSE spark2Neighbors_[h[2][1]][h[2][2]].label
  IN  [h \in held |-> labelOf(h)]

\* C6: no two tracked neighbors, over all interfaces and both neighbor
\* tables, hold the same label.
C6_LabelsUnique ==
  \A g, h \in DOMAIN HeldLabels : g # h => HeldLabels[g] # HeldLabels[h]

\* neighbors on both interfaces and in both tables hold labels, one of them
\* found by the scan from the end of the range
C6_Witness ==
  /\ Cardinality(DOMAIN HeldLabels) >= 3
  /\ \E h \in DOMAIN HeldLabels :
       HeldLabels[h] # kSrLocalRangeFirst + interfaceDb_[h[2][1]]

\* C7: the label of every neighbor reported NEIGHBOR_DOWN has been released.
C7_DownReleasesLabel ==
  \A e \in Reported(NEIGHBOR_DOWN) : e.label \notin allocatedLabels_

\* C8: every allocated label lies in the local range, whatever the interface
\* index, and also after an allocation that found the range exhausted.
C8_LabelsInLocalRange ==
  allocatedLabels_ \subseteq kSrLocalRangeFirst .. kSrLocalRangeSecond

\* an allocation found every label of the range taken
C8_Exhausted ==
  /\ kSrLocalRangeFirst .. kSrLocalRangeSecond \subseteq allocatedLabels_
  /\ kSrLocalRangeFirst - 1 \in allocatedLabels_

\* C9: a reported NEIGHBOR_UP carries the one area the local node and the
\* neighbor have in common.
C9_UpCarriesCommonArea ==
  \A e \in Reported(NEIGHBOR_UP) :
    /\ areas_.hasValue
    /\ e.area \in areas_.value

\* hellos from the local node, of another domain or of an old version, with
\* or without helloMsg
DroppedHellos == BadHellos(Nodes, FALSE) \cup BadHellos(Nodes, TRUE)

\* C10: a hello from the local node, of another domain or of a version
\* below the lowest supported one changes no neighbor table, allocates no
\* label, changes no sequence number and reports no event, in the legacy
\* path and in the Spark2 path.
C10_BadHelloIsDropped ==
  /\ [](\A i \in Ifaces :
          Has(interfaceDb_, i) =>
            \A pkt \in DroppedHellos :
              IF enableSpark2_ /\ pkt.helloMsg
                THEN LET r == processHelloMsg(i, pkt)
                     IN  /\ r.neighbors = spark2Neighbors_[i]
                         /\ r.allocated = allocatedLabels_
                         /\ r.reported = NoEvents
                         /\ ~r.aborted
                ELSE LET r == processHelloPacket(i, pkt)
                     IN  /\ r.neighbors = neighbors_[i]
                         /\ r.allocated = allocatedLabels_
                         /\ r.reported = NoEvents)
  /\ [][invalidKeepalive'
          => /\ neighbors_' = neighbors_
             /\ spark2Neighbors_' = spark2Neighbors_
             /\ allocatedLabels_' = allocatedLabels_
             /\ mySeqNum_' = mySeqNum_
             /\ reported' = NoEvents]_vars

\* a hello has just been dropped by the sanity check while a neighbor is
\* tracked
C10_Witness ==
  /\ invalidKeepalive
  /\ reported = NoEvents
  /\ LegacyKeys \cup Spark2Keys(spark2Neighbors_) # {}

\* the packets of a time series that were let through within the last second
AcceptedInWindow(index) ==
  {k \in DOMAIN timeSeriesVector_[index] :
     timeSeriesVector_[index][k] > now - OneSecond}

\* C11: within one second at most kMaxAllowedPps packets of the same time
\* series are let through by shouldProcessHelloPacket.
C11_AtMostMaxPps ==
  \A index \in DOMAIN timeSeriesVector_ :
    Cardinality(AcceptedInWindow(index)) <= kMaxAllowedPps

\* a packet has been dropped by the rate limit
C11_Dropped ==
  /\ ~processed
  /\ \E index \in DOMAIN timeSeriesVector_ :
       Cardinality(AcceptedInWindow(index)) > kMaxAllowedPps

\* rtt = (my_recv - my_sent) - (nbr_sent - nbr_recv) of the last hello
ComputedRtt ==
  (tstamps.myRecvTime - tstamps.mySentTime)
    - (tstamps.nbrSentTime - tstamps.nbrRecvTime)

\* C12: a sample is fed to the step detector only if the timestamps are in
\* order and the computed rtt is not negative, and the sample fed is a whole
\* number of milliseconds and at least 1 ms.
C12_OnlyValidSamples ==
  stepDetectorAdded
    => /\ tstamps.nbrSentTime >= tstamps.nbrRecvTime
       /\ tstamps.myRecvTime >= tstamps.mySentTime
       /\ ComputedRtt >= 0
       /\ rttLatest % 1000 = 0
       /\ rttLatest >= 1000

\* a sample whose computed rtt is negative has been fed to the step detector
C12_NegativeAccepted ==
  /\ stepDetectorAdded
  /\ ComputedRtt < 0
  /\ rttLatest = 1000

\* the hellos among sent that went out on ifName
SentOn(packets, ifName) ==
  {k \in DOMAIN packets : packets[k].ifName = ifName}

WithValue(keyVals) ==
  [key \in {k \in DOMAIN keyVals : keyVals[k].value # None} |-> keyVals[key]]
\* the keys of a publication whose record is a TTL update
TtlOnlyKeys(keyVals) == {key \in DOMAIN keyVals : keyVals[key].value = None}

\* the records a publication may carry that are TTL updates
TtlUpdates == {v \in RcvdValues : v.value = None}
\* the publications that carry a TTL update
TtlPublications ==
  {publication \in Publications : TtlOnlyKeys(publication.keyVals) # {}}
\* the publication without its TTL updates
WithoutTtlUpdates(publication) ==
  Publication(publication.area, WithValue(publication.keyVals),
              publication.expiredKeys)
\* what a handler did to the client, apart from the TTL updates it ignored
Effect(c) == [c EXCEPT !.ignored = {}]

\* C14: a TTL-only record (value absent) of a publication never replaces a
\* stored value.  Processing the record changes nothing in the client: not
\* the persisted value, version and originator of the key, not the set of
\* keys to advertise, and no callback is invoked with it; a publication has
\* the effect of the same publication without its TTL-only records.
C14_TtlUpdateChangesNothing ==
  /\ [](/\ \A key \in KvKeys, rcvdValue \in TtlUpdates :
             Effect(processKeyVal(Client, kDefaultArea, key, rcvdValue)) =
               Client
        /\ \A publication \in TtlPublications, failed \in Failures :
             \A areas \in Orders(UsedAreas) :
               Effect(processPublication(Client, publication, areas, failed)) =
                 processPublication(Client, WithoutTtlUpdates(publication),
                                    areas, failed))
  /\ [][\A key \in ignored' :
          /\ persistedKeyVals_'[kDefaultArea][key] =
               persistedKeyVals_[kDefaultArea][key]
          /\ key \in keysToAdvertise_'[kDefaultArea] =>
               key \in keysToAdvertise_[kDefaultArea]
          /\ \A i \in invoked' : i.key = key => i.value = Missing
     ]_vars

\* a TTL update arrived for a key that is persisted, to be advertised and
\* subscribed, and for a key that is set with a finite TTL only
C14_Witness ==
  /\ "k1" \in ignored
  /\ persistedKeyVals_[kDefaultArea]["k1"] # Missing
  /\ "k1" \in keysToAdvertise_[kDefaultArea]
  /\ "k1" \in keyCallbacks_


\* the record the i-th publication received carries for the key
ReceivedValue(i, key) == received[i].keyVals[key]
\* the publications received that carry the key, by their place
ReceivedOf(key) ==
  {i \in 1 .. Len(received) : key \in DOMAIN received[i].keyVals}
\* the same (version, originator, value)
SameRecord(v, w) ==
  /\ w # Missing
  /\ v.version = w.version
  /\ v.originatorId = w.originatorId
  /\ v.value = w.value

\* what a set does to the stream of a subscriber: nothing when the record
\* is the stored one, one more publication when it is accepted as newer
StreamOfSets ==
  \A key \in StoreKeys, value \in SetValues :
    StoreSetKey(key, value) =>
      /\ SameRecord(value, kvStoreDb[key]) => received' = received
      /\ publishers > 0 /\ kvStoreDb'[key] = value /\ kvStoreDb[key] # value =>
           /\ Len(received') = Len(received) + 1
           /\ received'[Len(received')].keyVals[key] = value

C17_GetPrefixesIsReference == getPrefixes(prefixMap_) = reference

\* a prefix is advertised with two types by the reference semantics, which
\* the map from prefix to entry cannot hold
C17_TwoTypesOfOnePrefix ==
  \E e, f \in reference : e.prefix = f.prefix /\ e.type # f.type


\* a label that fits in twenty bits
FitsInTwentyBits(label) == label >= 0 /\ label < TwentyBits
\* an action matches its code
MatchesCode(action) ==
  /\ action.action \in MplsActionCodes
  /\ action.action = "PUSH" =>
       /\ action.swapLabel = Missing
       /\ action.pushLabels # Missing
       /\ Len(action.pushLabels.value) >= 1
       /\ \A i \in 1..Len(action.pushLabels.value) :
            FitsInTwentyBits(action.pushLabels.value[i])
  /\ action.action = "SWAP" =>
       /\ action.pushLabels = Missing
       /\ action.swapLabel # Missing
       /\ FitsInTwentyBits(action.swapLabel.value)
  /\ action.action \in {"PHP", "POP_AND_LOOKUP"} =>
       action.swapLabel = Missing /\ action.pushLabels = Missing

\* C18: every MPLS route built by createMplsRoute has a top label of twenty
\* bits and an MPLS action in every next hop; every action built by
\* createMplsAction matches its code: PUSH has a non-empty list of 20-bit push
\* labels and no swap label, SWAP a 20-bit swap label and no push labels, PHP
\* and POP_AND_LOOKUP neither.
C18_MplsRoutesAndActionsAreValid ==
  /\ mplsRoute # Missing =>
       /\ FitsInTwentyBits(mplsRoute.topLabel)
       /\ \A i \in 1..Len(mplsRoute.nextHops) :
            mplsRoute.nextHops[i].mplsAction # Missing
  /\ mplsAction # Missing => MatchesCode(mplsAction)

\* a route of the greatest label with two next hops, out of order when built,
\* and a PUSH of two labels
C18_Witness ==
  /\ mplsRoute # Missing
  /\ mplsRoute.topLabel = TwentyBits - 1
  /\ Len(mplsRoute.nextHops) = 2
  /\ mplsRoute.nextHops[1].address = Addresses[1]
  /\ mplsRoute.nextHops[1].mplsAction.action = "SWAP"
  /\ mplsRoute.nextHops[2].mplsAction.action = "PHP"
  /\ mplsAction # Missing
  /\ mplsAction.action = "PUSH"
  /\ Len(mplsAction.pushLabels.value) = 2


\* C19: for every Spark2 neighbor the periodic handshake timer is armed
\* exactly while the neighbor is in NEGOTIATE: it is started together with
\* the negotiate hold timer on WARM to NEGOTIATE and cancelled when the
\* neighbor becomes ESTABLISHED and when the negotiate hold timer expires.
C19_HandshakeTimerIffNegotiate ==
  \A k \in Spark2Keys(spark2Neighbors_) :
    LET neighbor == spark2Neighbors_[k[1]][k[2]]
    IN  /\ neighbor.negotiateTimer <=> neighbor.state = NEGOTIATE
        /\ neighbor.state = NEGOTIATE => neighbor.negotiateHoldTimer

\* a neighbor is back in WARM after its negotiate hold timer expired, with
\* the handshake timer cancelled
C19_BackInWarm ==
  \E k \in Spark2Keys(spark2Neighbors_) :
    /\ StateOf(spark2Neighbors_, k) = WARM
    /\ NEGOTIATE \in visited[k]
    /\ ESTABLISHED \notin visited[k]
    /\ ~spark2Neighbors_[k[1]][k[2]].negotiateTimer


\* the neighbor k is tracked and in NEGOTIATE
InNegotiate(k) ==
  /\ k \in Spark2Keys(spark2Neighbors_)
  /\ StateOf(spark2Neighbors_, k) = NEGOTIATE

\* C20: a Spark2 neighbor never stays in NEGOTIATE forever: when no handshake
\* is accepted, the negotiate hold timer expires and the neighbor returns to
\* WARM; the timer never fires while the neighbor is in another state.
C20_NegotiateEnds ==
  /\ [](\A k \in Spark2Keys(spark2Neighbors_) :
          LET neighbor == spark2Neighbors_[k[1]][k[2]]
          IN  neighbor.negotiateHoldTimer <=> neighbor.state = NEGOTIATE)
  /\ [][\A i \in LinkIfaces : \A n \in LinkNodes :
          NegotiateTimeout(i, n) =>
            /\ InNegotiate(<<i, n>>)
            /\ ~aborted'
            /\ StateOf(spark2Neighbors_', <<i, n>>) = WARM]_vars
  /\ \A k \in LinkIfaces \X LinkNodes :
       InNegotiate(k) ~> (~InNegotiate(k) \/ aborted)

\* with v4 subnet validation of handshakes enabled, a neighbor is back in
\* WARM by the expiry of the negotiate hold timer
C20_ExpiredUnderValidation ==
  /\ enableV4_ /\ enableSubnetValidation_
  /\ \E k \in Spark2Keys(spark2Neighbors_) :
       /\ StateOf(spark2Neighbors_, k) = WARM
       /\ NEGOTIATE \in visited[k]
       /\ ESTABLISHED \notin visited[k]
       /\ ~spark2Neighbors_[k[1]][k[2]].negotiateHoldTimer

\* the hello reflects the local node with a sequence number below the
\* current one
ReflectsMe(pkt) ==
  /\ Has(pkt.neighborInfos, myNodeName_)
  /\ pkt.neighborInfos[myNodeName_] < mySeqNum_
\* the hello reflects a previous incarnation of the local node
ReflectsPrevious(pkt) ==
  /\ Has(pkt.neighborInfos, myNodeName_)
  /\ pkt.neighborInfos[myNodeName_] >= mySeqNum_
\* the same hello from a neighbor that has not heard from the local node
Unheard(pkt) == [pkt EXCEPT !.neighborInfos = EmptyMap]
\* the handler of a hello message takes its sender from WARM to NEGOTIATE
EntersNegotiate(ifName, helloMsg) ==
  /\ StateOf(spark2Neighbors_, <<ifName, helloMsg.nodeName>>) = WARM
  /\ LET r == processHelloMsg(ifName, helloMsg)
     IN  /\ Has(r.neighbors, helloMsg.nodeName)
         /\ r.neighbors[helloMsg.nodeName].state = NEGOTIATE
\* the handler of a legacy hello reports NEIGHBOR_UP
ReportsUp(ifName, pkt) ==
  \E e \in BagToSet(processHelloPacket(ifName, pkt).reported) :
    e.eventType = NEIGHBOR_UP

\* NEIGHBOR_UP of the legacy path and WARM to NEGOTIATE of the Spark2 path
\* happen only on a hello that reflects the local node with a sequence
\* number below the current one
ProgressOnlyWhenHeard ==
  /\ [](\A i \in LinkIfaces :
          Has(interfaceDb_, i) =>
            /\ \A pkt \in Hellos(LinkNodes, FALSE) :
                 ReportsUp(i, pkt) => ReflectsMe(pkt)
            /\ enableSpark2_ =>
                 \A pkt \in Hellos(LinkNodes, TRUE) :
                   EntersNegotiate(i, pkt) => ReflectsMe(pkt))
  /\ [][/\ \A k \in Spark2Keys(spark2Neighbors_) :
             (/\ StateOf(spark2Neighbors_, k) = WARM
              /\ k \in Spark2Keys(spark2Neighbors_')
              /\ StateOf(spark2Neighbors_', k) = NEGOTIATE)
               => \E pkt \in Hellos(LinkNodes, TRUE) :
                    /\ pkt.nodeName = k[2]
                    /\ ReflectsMe(pkt)
                    /\ RecvHelloMsg(k[1], pkt)
        /\ \A e \in BagToSet(reported') :
             (e.eventType = NEIGHBOR_UP /\ e.table = "legacy")
               => \E pkt \in Hellos(LinkNodes, FALSE) :
                    /\ pkt.nodeName = e.nodeName
                    /\ ReflectsMe(pkt)
                    /\ RecvHelloPacket(e.ifName, pkt)]_vars

\* a hello that reflects a previous incarnation is handled as the same hello
\* without the local node in it: by the legacy path
PreviousIsUnheardLegacy ==
  \A i \in LinkIfaces :
    Has(interfaceDb_, i) =>
      \A pkt \in Hellos(LinkNodes, FALSE) :
        ReflectsPrevious(pkt) =>
          processHelloPacket(i, pkt) = processHelloPacket(i, Unheard(pkt))
\* by the Spark2 path, for a sender in one of the states
PreviousIsUnheardIn(states) ==
  \A i \in LinkIfaces :
    (Has(interfaceDb_, i) /\ enableSpark2_) =>
      \A pkt \in Hellos(LinkNodes, TRUE) :
        (/\ ReflectsPrevious(pkt)
         /\ Has(spark2Neighbors_[i], pkt.nodeName)
              => spark2Neighbors_[i][pkt.nodeName].state \in states)
          => processHelloMsg(i, pkt) = processHelloMsg(i, Unheard(pkt))
\* what holds of the Spark2 path: for a sender that is not ESTABLISHED
PreviousIsUnheardBeforeEstablished ==
  PreviousIsUnheardLegacy /\ PreviousIsUnheardIn(States \ {ESTABLISHED})

\* C21: adjacency progress happens only on a hello that reflects the local
\* node with a sequence number strictly lower than the current one:
\* NEIGHBOR_UP in the legacy path and WARM to NEGOTIATE in the Spark2 path;
\* a hello reflecting a sequence number greater than or equal to the current
\* one is treated as not having heard from the local node.
C21_ProgressOnlyOnReflection ==
  /\ ProgressOnlyWhenHeard
  /\ [](PreviousIsUnheardLegacy /\ PreviousIsUnheardIn(States))

\* an ESTABLISHED Spark2 neighbor while a hello can still reflect a previous
\* incarnation
C21_EstablishedAndPrevious ==
  /\ mySeqNum_ <= MaxSeq
  /\ \E k \in Spark2Keys(spark2Neighbors_) :
       StateOf(spark2Neighbors_, k) = ESTABLISHED

\* the handshake is not accepted: its sender, a tracked neighbor, is not in
\* NEGOTIATE, or the handshake fails the v4 subnet validation
NotAccepted(ifName, handshakeMsg) ==
  /\ Has(interfaceDb_, ifName) /\ enableSpark2_
  /\ Has(spark2Neighbors_[ifName], handshakeMsg.nodeName)
  /\ \/ spark2Neighbors_[ifName][handshakeMsg.nodeName].state # NEGOTIATE
     \/ /\ enableV4_ /\ enableSubnetValidation_
        /\ handshakeMsg.v4 # "a"

\* C22: a handshake received while its sender's neighbor entry is in a state
\* other than NEGOTIATE leaves the entry unchanged (state, what a handshake
\* teaches, timers) and reports no neighbor event; the same holds when the
\* handshake fails the v4 subnet validation in NEGOTIATE.
C22_UnacceptedHandshakeChangesNothing ==
  /\ [](\A i \in LinkIfaces : \A pkt \in Handshakes(LinkNodes) :
          NotAccepted(i, pkt) =>
            LET r == processHandshakeMsg(i, pkt)
            IN  /\ r.neighbors = spark2Neighbors_[i]
                /\ r.allocated = allocatedLabels_
                /\ r.reported = NoEvents
                /\ ~r.aborted)
  /\ [][\A i \in LinkIfaces : \A pkt \in Handshakes(LinkNodes) :
          (NotAccepted(i, pkt) /\ RecvHandshakeMsg(i, pkt))
            => /\ spark2Neighbors_' = spark2Neighbors_
               /\ reported' = NoEvents]_vars

\* an ESTABLISHED neighbor, and a neighbor in NEGOTIATE under v4 subnet
\* validation, after a handshake: nothing is reported
C22_Witness ==
  /\ reported = NoEvents
  /\ sent = <<>>
  /\ \E k \in Spark2Keys(spark2Neighbors_) :
       /\ StateOf(spark2Neighbors_, k) = ESTABLISHED
       /\ spark2Neighbors_[k[1]][k[2]].transportAddressV4 = "a"
  /\ enableV4_ /\ enableSubnetValidation_

\* the labels held by the neighbors of the interfaces ifNames
LabelsOn(ifNames) ==
  {neighbors_[k[1]][k[2]].label : k \in AllNeighbors(neighbors_, ifNames)}
    \cup {spark2Neighbors_[k[1]][k[2]].label :
            k \in AllNeighbors(spark2Neighbors_, ifNames)}

\* C23: when an interface-database update no longer lists a tracked
\* interface as valid (absent, down, no v6 link-local address, or no v4
\* address while v4 is enabled), every neighbor on it is removed, every label
\* they hold is released, its hello timer is removed and it disappears from
\* the interface, neighbor and timer maps; neighbors, labels and timers of
\* all other interfaces are unchanged.
C23_InvalidInterfaceIsRemoved ==
  /\ [](\A ifDb \in IfDbs(Ifaces) :
          LET r == processRequestMsg(ifDb)
              gone == {i \in DOMAIN interfaceDb_ : ~isValidInterface(ifDb[i])}
              kept == DOMAIN interfaceDb_ \ gone
          IN  /\ \A i \in gone :
                   /\ i \notin DOMAIN r.interfaceDb
                   /\ i \notin DOMAIN r.neighbors
                   /\ i \notin DOMAIN r.spark2Neighbors
                   /\ i \notin r.helloTimers
              /\ r.allocated \cap LabelsOn(gone) = {}
              /\ r.allocated = allocatedLabels_ \ LabelsOn(gone)
              /\ \A i \in kept :
                   /\ i \in DOMAIN r.interfaceDb
                   /\ r.neighbors[i] = neighbors_[i]
                   /\ r.spark2Neighbors[i] = spark2Neighbors_[i]
                   /\ i \in r.helloTimers
              /\ LabelsOn(kept) \subseteq r.allocated)
  /\ [][\A i \in DOMAIN interfaceDb_ :
          (i \notin DOMAIN interfaceDb_' /\ ~aborted')
            => /\ i \notin DOMAIN neighbors_'
               /\ i \notin DOMAIN spark2Neighbors_'
               /\ i \notin ifNameToHelloTimers_'
               /\ allocatedLabels_' \cap LabelsOn({i}) = {}
               /\ \A j \in DOMAIN interfaceDb_ \cap DOMAIN interfaceDb_' :
                    /\ neighbors_'[j] = neighbors_[j]
                    /\ spark2Neighbors_'[j] = spark2Neighbors_[j]
                    /\ j \in ifNameToHelloTimers_'
                    /\ LabelsOn({j}) \subseteq allocatedLabels_']_vars

\* one of two interfaces with neighbors has just been removed: its legacy
\* neighbor is reported down, the neighbors of the other are still tracked
C23_Witness ==
  /\ DOMAIN interfaceDb_ = {"if2"}
  /\ ifNameToHelloTimers_ = {"if2"}
  /\ \E e \in BagToSet(reported) :
       e.eventType = NEIGHBOR_DOWN /\ e.ifName = "if1"
  /\ AllNeighbors(neighbors_, {"if2"}) # {}
  /\ AllNeighbors(spark2Neighbors_, {"if2"}) # {}
  /\ enableV4_

\* the record the client persists for key in the default area, or Missing
Persisted(key) == persistedKeyVals_[kDefaultArea][key]

\* C24: persistKey(key, value, ttl) for a key that is already persisted in
\* the area with the same value and the same ttl returns false and changes no
\* client state: persisted record, backoff, TTL-refresh entry and pending set
\* are unchanged and nothing is sent to the KvStore.
C24_SamePersistIsNoOp ==
  \A key \in KvKeys :
    Persisted(key) # Missing =>
      \A maybeValue \in MaybeValues, failed \in Failures :
        \A areas \in Orders(UsedAreas) :
          LET c == persistKey(Client, key, Persisted(key).value,
                              Persisted(key).ttl, kDefaultArea, maybeValue,
                              areas, failed)
          IN  /\ c.result = FALSE
              /\ c.persistedKeyVals = persistedKeyVals_
              /\ c.backoffs = backoffs_
              /\ c.keyTtlBackoffs = keyTtlBackoffs_
              /\ c.keysToAdvertise = keysToAdvertise_
              /\ c.setRequests = {}
              /\ c.invoked = {}
              /\ ~c.thrown

\* a persisted key with a finite ttl is pending while its backoff allows no
\* try and nothing is sent: to persist it again as it is changes none of this
C24_Witness ==
  /\ Persisted("k1") # Missing
  /\ Persisted("k1").ttl = FiniteTtl
  /\ keyTtlBackoffs_[kDefaultArea]["k1"] # Missing
  /\ "k1" \in keysToAdvertise_[kDefaultArea]
  /\ backoffs_["k1"] = Backoff(FALSE)
  /\ setRequests = {}
  /\ invoked = {}

\* the record persistKey starts from: the persisted one, else the KvStore's
KnownRecord(key, maybeValue) ==
  IF Persisted(key) # Missing THEN Persisted(key) ELSE maybeValue

\* C25: after persistKey(key, value, ttl) the persisted record of the key has
\* the given value and ttl; its version is 1 when the key was neither
\* persisted nor in the KvStore, the known version + 1 with this node as
\* originator and ttlVersion 0 when the known record has another originator
\* or another value, and the known version when originator and value match.
C25_PersistedRecordAfterPersistKey ==
  \A key \in KvKeys, value \in KvData, ttl \in Ttls :
    \A maybeValue \in MaybeValues, failed \in Failures :
      \A areas \in Orders(UsedAreas) :
        LET known == KnownRecord(key, maybeValue)
            c == persistKey(Client, key, value, ttl, kDefaultArea, maybeValue,
                            areas, failed)
            rec == c.persistedKeyVals[kDefaultArea][key]
        IN  /\ rec # Missing
            /\ rec.value = value
            /\ rec.ttl = ttl
            /\ IF known = Missing
                 THEN rec.version = 1
                 ELSE IF known.originatorId # nodeId_ \/ known.value # value
                   THEN /\ rec.version = known.version + 1
                        /\ rec.originatorId = nodeId_
                        /\ rec.ttlVersion = 0
                   ELSE rec.version = known.version

\* a key persisted twice with two values: version 2 of this node is sent
C25_Witness ==
  /\ Persisted("k1") # Missing
  /\ Persisted("k1").version = 2
  /\ Persisted("k1").value = "b"
  /\ Persisted("k1").originatorId = nodeId_
  /\ Persisted("k1").ttlVersion = 0
  /\ SetRequest(kDefaultArea, "k1", Persisted("k1")) \in setRequests

\* the received records that carry a value
RcvdWithValue == {v \in RcvdValues : ~isTtlUpdate(v)}
\* the received record has the client's version, this node as originator and
\* the client's value
SameAsClients(currentValue, rcvdValue) ==
  /\ rcvdValue.version = currentValue.version
  /\ rcvdValue.originatorId = nodeId_
  /\ rcvdValue.value = currentValue.value

\* C26: processPublication on a received record with a value for a persisted
\* key: a lower received version changes nothing; otherwise, unless the
\* received record has the client's version, this node as originator and the
\* client's value, the client's version becomes strictly greater than the
\* received one, its originator is this node and the key is queued for
\* advertisement; the client's value is never replaced by the received one.
C26_PersistedKeyBeatsPublication ==
  \A key \in KvKeys :
    Persisted(key) # Missing =>
      \A rcvdValue \in RcvdWithValue :
        LET currentValue == Persisted(key)
            c == processKeyVal(Client, kDefaultArea, key, rcvdValue)
            merged == c.persistedKeyVals[kDefaultArea][key]
        IN  /\ merged # Missing
            /\ merged.value = currentValue.value
            /\ IF rcvdValue.version < currentValue.version
                 THEN /\ c.persistedKeyVals = persistedKeyVals_
                      /\ c.keyTtlBackoffs = keyTtlBackoffs_
                      /\ c.keysToAdvertise = keysToAdvertise_
                      /\ c.backoffs = backoffs_
                      /\ c.setRequests = {}
                 ELSE IF SameAsClients(currentValue, rcvdValue)
                   THEN merged.version = currentValue.version
                   ELSE /\ merged.version > rcvdValue.version
                        /\ merged.originatorId = nodeId_
                        /\ key \in c.keysToAdvertise[kDefaultArea]
            \* the whole handler: the key stays pending or its record is sent
            /\ \A failed \in Failures : \A areas \in Orders(UsedAreas) :
                 LET p == processPublication(
                            Client,
                            Publication(kDefaultArea,
                                        [k \in {key} |-> rcvdValue], {}),
                            areas, failed)
                 IN  \/ p.thrown
                     \/ /\ p.persistedKeyVals[kDefaultArea][key] = merged
                        /\ \/ rcvdValue.version < currentValue.version
                           \/ SameAsClients(currentValue, rcvdValue)
                           \/ key \in p.keysToAdvertise[kDefaultArea]
                           \/ SetRequest(kDefaultArea, key, merged)
                                \in p.setRequests

\* the client outbid a received record of version 2: its record of version
\* 3 keeps the value "b" no publication carries, and was handed to the
\* callback of the key and sent
C26_Witness ==
  /\ Persisted("k1") # Missing
  /\ Persisted("k1").version = 3
  /\ Persisted("k1").value = "b"
  /\ Persisted("k1").originatorId = nodeId_
  /\ Invoked("keyCallbacks_", "k1", Persisted("k1")) \in invoked
  /\ SetRequest(kDefaultArea, "k1", Persisted("k1")) \in setRequests

\* the TTL-refresh entry of a key in the default area, or Missing
TtlEntry(key) == keyTtlBackoffs_[kDefaultArea][key]
\* the key was set with a finite ttl and is not persisted
SetNotPersisted(key) == TtlEntry(key) # Missing /\ Persisted(key) = Missing
\* the received record beats the client's by version, then originatorId
Beats(rcvdValue, setValue) ==
  \/ rcvdValue.version > setValue.version
  \/ /\ rcvdValue.version = setValue.version
     /\ OriginatorGreater(rcvdValue.originatorId, setValue.originatorId)
\* the received record is the client's with a higher ttlVersion
RefreshedByOther(rcvdValue, setValue) ==
  /\ rcvdValue.version = setValue.version
  /\ rcvdValue.originatorId = setValue.originatorId
  /\ rcvdValue.ttlVersion > setValue.ttlVersion
\* what is stated of the TTL-refresh entry of key after a publication
\* with the record rcvdValue for it
TtlEntryAfter(key, rcvdValue) ==
  LET setValue == TtlEntry(key).value
      c == processKeyVal(Client, kDefaultArea, key, rcvdValue)
      after == c.keyTtlBackoffs[kDefaultArea][key]
  IN  /\ IF Beats(rcvdValue, setValue)
           THEN after = Missing
           ELSE IF RefreshedByOther(rcvdValue, setValue)
             THEN /\ after # Missing
                  /\ after.canTryNow = TtlEntry(key).canTryNow
                  /\ after.value.version = setValue.version
                  /\ ttlUpdate(c, kDefaultArea, key).ttlVersion
                       > rcvdValue.ttlVersion
             ELSE after = TtlEntry(key)
      \* the whole handler leaves the entry as the loop body did
      /\ \A failed \in Failures : \A areas \in Orders(UsedAreas) :
           LET p == processPublication(
                      Client,
                      Publication(kDefaultArea, [k \in {key} |-> rcvdValue],
                                  {}),
                      areas, failed)
           IN  p.thrown \/ p.keyTtlBackoffs = c.keyTtlBackoffs

\* C27: for a key set with a finite TTL and not persisted, a received record
\* WITH A VALUE that beats the client's by (version, originatorId) cancels
\* the TTL refreshes of the key; one with the client's version and originator
\* and a higher ttlVersion makes the next refresh use a ttlVersion greater
\* than the received one; every other record, and every record without a
\* value, leaves the TTL-refresh entry unchanged.
C27_SetKeyYieldsToPublishedValue ==
  \A key \in KvKeys :
    SetNotPersisted(key) =>
      \A rcvdValue \in RcvdValues :
        IF isTtlUpdate(rcvdValue)
          THEN processKeyVal(Client, kDefaultArea, key, rcvdValue).keyTtlBackoffs
                 = keyTtlBackoffs_
          ELSE TtlEntryAfter(key, rcvdValue)

\* C27 as worded, for every record of a publication: a record without a
\* value that beats the client's does not cancel the TTL refreshes
C27_SetKeyYieldsToEveryRecord ==
  \A key \in KvKeys :
    SetNotPersisted(key) =>
      \A rcvdValue \in RcvdValues : TtlEntryAfter(key, rcvdValue)

\* a key that is set and not persisted whose ttlVersion is ahead of what the
\* client has sent: a publication of ttlVersion 1 moved it to 2
C27_Witness ==
  /\ SetNotPersisted("k1")
  /\ TtlEntry("k1").value.ttlVersion = 2
  /\ TtlEntry("k1").value.version = 1
  /\ ~TtlEntry("k1").canTryNow
  /\ setRequests = {}

(***************************************************************************)
(* The client with a log of the TTL updates it hands to the KvStore, under *)
(* setKey, persistKey, received publications and its timers.               *)
(***************************************************************************)
\* the TTL updates among the key-values handed to the KvStore
TtlUpdatesOf(requests) == {r \in requests : isTtlUpdate(r.value)}
\* setKeysHelper was handed the requests of this step: the log follows
LogTtlUpdates ==
  /\ ttlSent' =
    [key \in KvKeys |-> [version \in 1 .. MaxVersion |->
       LET sentNow == {r.value.ttlVersion :
                         r \in {u \in TtlUpdatesOf(setRequests') :
                                  u.key = key /\ u.value.version = version}}
       IN  IF sentNow = {}
             THEN ttlSent[key][version]
             ELSE Max(ttlSent[key][version],
                      CHOOSE n \in sentNow : \A m \in sentNow : m <= n)]]
  /\ UNCHANGED checkVars

\* the publications of one record for the key of the client
PublicationsOfOne ==
  {Publication(kDefaultArea, keyVals, {}) : keyVals \in [{"k1"} -> RcvdValues]}

\* persistKey, received publications and the timers
NextTtlPersisted ==
  \/ \E key \in OwnKeys, value \in KvData, ttl \in Ttls :
       \E maybeValue \in IF persistedKeyVals_[kDefaultArea][key] = Missing
                            THEN MaybeValues ELSE {Missing} :
         /\ PersistKey(key, value, ttl, maybeValue, <<kDefaultArea>>, {})
         /\ LogTtlUpdates
  \/ \E publication \in PublicationsOfOne :
       /\ ProcessPublication(publication, <<kDefaultArea>>, {})
       /\ LogTtlUpdates
  \/ TtlTimer /\ LogTtlUpdates
  \/ \E key \in OwnKeys : TtlBackoffElapses(key) /\ LogTtlUpdates

\* setKey as well
NextTtl ==
  \/ NextTtlPersisted
  \/ \E key \in OwnKeys, value \in {"a"}, version \in 0 .. 1 :
       \* getKey finds nothing, or the record of another node
       \E maybeValue \in
            IF version = 0
              THEN {Missing, createThriftValue(1, "node2", "a", kTtlInfinity, 0)}
              ELSE {Missing} :
         /\ SetKey(key, value, version, FiniteTtl, maybeValue)
         /\ LogTtlUpdates

SpecTtlPersisted == InitKv /\ [][NextTtlPersisted]_vars
SpecTtl == InitKv /\ [][NextTtl]_vars

\* a TTL update carries no value and a ttl that is not infinite, as the
\* entry it is built from; persistKey with an infinite ttl ends the TTL
\* updates of the key
TtlUpdatesAreBare ==
  /\ [](\A key \in KvKeys :
          TtlEntry(key) # Missing =>
            /\ isTtlUpdate(TtlEntry(key).value)
            /\ TtlEntry(key).value.ttl # kTtlInfinity)
  /\ [](\A key \in KvKeys, value \in KvData, maybeValue \in MaybeValues :
          LET c == persistKey(Client, key, value, kTtlInfinity, kDefaultArea,
                              maybeValue, <<kDefaultArea>>, {})
          IN  c.result =>
                /\ c.keyTtlBackoffs[kDefaultArea][key] = Missing
                /\ \A r \in TtlUpdatesOf(c.setRequests) : r.key # key)
  /\ [](\A r \in TtlUpdatesOf(setRequests) :
          /\ r.value.ttl # kTtlInfinity
          /\ TtlEntry(r.key) # Missing
          /\ r.value = TtlEntry(r.key).value
          /\ Persisted(r.key) # Missing =>
               r.value.version >= Persisted(r.key).version)
\* a TTL update of a persisted key carries the version of the persisted
\* record
TtlUpdatesCarryPersistedVersion ==
  \A r \in TtlUpdatesOf(setRequests) :
    Persisted(r.key) # Missing => r.value.version = Persisted(r.key).version
\* a TTL update carries a ttlVersion above every one sent before for the key
\* and the version
TtlVersionsIncrease ==
  [][\A r \in TtlUpdatesOf(setRequests') :
       r.value.ttlVersion > ttlSent[r.key][r.value.version]]_vars

\* C28, as worded: every TTL refresh carries no value, the version of the
\* client's record and a ttlVersion strictly greater than every ttlVersion
\* sent before for the key and the version, over any sequence of setKey,
\* persistKey and received publications; a key with an infinite ttl is never
\* refreshed.
C28_TtlRefreshesIncrease ==
  /\ TtlUpdatesAreBare
  /\ TtlVersionsIncrease

\* a TTL update was sent with the ttlVersion that was sent before for the
\* key and the version
C28_SameTtlVersionTwice ==
  \E r \in TtlUpdatesOf(setRequests) :
    /\ r.key = "k1"
    /\ r.value.version = 1
    /\ r.value.ttlVersion = 1
    /\ ttlSent["k1"][1] = 2

(***************************************************************************)
(* The client with its advertise timer, a KvStore that can fail a set      *)
(* request.                                                                *)
(***************************************************************************)
\* the keys pending advertisement in the default area
Pending == keysToAdvertise_[kDefaultArea]
\* advertiseKeyValsTimer_ fires while the backoff of the key allows a try
\* and the KvStore takes the set request
AdvertisedByTimer(key) ==
  /\ key \in Pending
  /\ backoffs_[key] = Backoff(TRUE)
  /\ AdvertiseKeyValsTimer(<<kDefaultArea>>, {})
  /\ UNCHANGED <<ttlSent, checkVars>>

NextAdvertise ==
  \/ \E key \in OwnKeys, value \in KvData, ttl \in Ttls, failed \in Failures :
       \E maybeValue \in IF persistedKeyVals_[kDefaultArea][key] = Missing
                            THEN MaybeValues ELSE {Missing} :
         /\ PersistKey(key, value, ttl, maybeValue, <<kDefaultArea>>, failed)
         /\ UNCHANGED <<ttlSent, checkVars>>
  \/ \E publication \in PublicationsOfOne, failed \in Failures :
       /\ ProcessPublication(publication, <<kDefaultArea>>, failed)
       /\ UNCHANGED <<ttlSent, checkVars>>
  \/ \E failed \in Failures :
       /\ AdvertiseKeyValsTimer(<<kDefaultArea>>, failed)
       /\ UNCHANGED <<ttlSent, checkVars>>
  \/ \E key \in OwnKeys : BackoffElapses(key) /\ UNCHANGED <<ttlSent, checkVars>>
  \/ \E key \in OwnKeys : UnsetKey(key) /\ UNCHANGED <<ttlSent, checkVars>>

\* time passes, and of the tries the timer makes when the backoff of a
\* pending key allows one, the reachable KvStore takes one in the end
SpecAdvertise ==
  /\ InitKv
  /\ [][NextAdvertise]_vars
  /\ \A key \in OwnKeys :
       /\ WF_vars(BackoffElapses(key) /\ UNCHANGED <<ttlSent, checkVars>>)
       /\ SF_vars(AdvertisedByTimer(key))

\* C29: a persisted key whose record changed stays pending until a set
\* request containing it succeeds: advertisePendingKeys skips the keys whose
\* backoff allows no try, a failed set request removes nothing, and the
\* timer is scheduled after every run; with time passing and a reachable
\* KvStore every pending key is advertised in the end.
C29_PendingUntilAdvertised ==
  /\ [](Pending # {} => advertiseKeyValsTimer_ \/ kvAborted)
  /\ [](\A failed \in Failures :
          LET c == advertisePendingKeys(Client, <<kDefaultArea>>, failed)
          IN  \/ c.thrown
              \/ /\ c.advertiseKeyValsTimer
                 /\ c.persistedKeyVals = persistedKeyVals_
                 /\ \A key \in Pending :
                      IF backoffs_[key].canTryNow
                        THEN /\ SetRequest(kDefaultArea, key, Persisted(key))
                                  \in c.setRequests
                             /\ key \in c.keysToAdvertise[kDefaultArea]
                                  <=> kDefaultArea \in failed
                        ELSE /\ key \in c.keysToAdvertise[kDefaultArea]
                             /\ \A r \in c.setRequests : r.key # key)
  /\ [][\A key \in Pending :
          \/ key \in Pending'
          \/ Persisted(key)' = Missing
          \/ SetRequest(kDefaultArea, key, Persisted(key)') \in setRequests']_vars
  /\ \A key \in OwnKeys :
       (key \in Pending) ~> (key \notin Pending \/ kvAborted)

\* the set request with a pending key failed: the key is still pending, its
\* backoff allows no try and the timer is scheduled
C29_Witness ==
  /\ "k1" \in Pending
  /\ SetRequest(kDefaultArea, "k1", Persisted("k1")) \in setRequests
  /\ backoffs_["k1"] = Backoff(FALSE)
  /\ advertiseKeyValsTimer_

(***************************************************************************)
(* The client with the periodic check of its persisted keys, and a KvStore *)
(* that takes its set requests, loses keys and is written by another node. *)
(* KvStore.cpp is not among the sources: the KvStore merges by the order   *)
(* on (version, originator id, value) and ignores a TTL update of a key it *)
(* does not hold.                                                          *)
(***************************************************************************)
\* a faulty check: no persisted key is taken for lost
expiredKeyValsNone(persistedKeyVals, pubKeyVals) == {}
\* checkPersistKeyInStore: the persisted keys the KvStore did not return
expiredKeyVals(persistedKeyVals, pubKeyVals) ==
  {key \in KvKeys :
     persistedKeyVals[key] # Missing /\ key \notin DOMAIN pubKeyVals}

\* KvStoreClientInternal::checkPersistKeyInStore for the area the client
\* uses; keyVals is what getKvStoreKeyVals returns for the persisted keys,
\* getFailed whether it throws instead
checkPersistKeyInStore(c, keyVals, getFailed, areas, failed) ==
  LET area == kDefaultArea
      persistedKeyVals == c.persistedKeyVals[area]
      expired == expiredKeyVals(persistedKeyVals, keyVals)
      advertised == [c EXCEPT !.setRequests =
                 @ \cup {SetRequest(area, key, persistedKeyVals[key]) :
                           key \in expired}]
  IN  IF (\A key \in KvKeys : persistedKeyVals[key] = Missing) \/ getFailed
        THEN c
        ELSE processPublication(advertised, Publication(area, keyVals, {}), areas,
                                failed)

\* KvStore::getKvStoreKeyVals for the persisted keys
getKvStoreKeyVals(keys) ==
  [key \in {k \in keys : kvStore_[k] # Missing} |-> kvStore_[key]]
\* the keys the client persists
PersistedKeys == {key \in KvKeys : Persisted(key) # Missing}

\* the record of a key in the KvStore after the set requests of a handler
mergeKeyValues(vLoc, requests) ==
  LET newer == {r.value : r \in {u \in requests :
                                   /\ ~isTtlUpdate(u.value)
                                   /\ accepted(vLoc, u.value)}}
  IN  IF newer = {}
        THEN vLoc
        ELSE CHOOSE v \in newer : \A w \in newer : ~Newer(w, v)
\* the KvStore takes the set requests of a handler, unless it fails them
StoreTakes(requests, failed) ==
  kvStore_' =
    IF kDefaultArea \in failed
      THEN kvStore_
      ELSE [key \in KvKeys |->
              mergeKeyValues(kvStore_[key], {r \in requests : r.key = key})]

\* checkPersistKeyTimer_ fires
CheckPersistKeyTimer(getFailed, failed) ==
  /\ checkPersistKeyTimer_
  /\ \E c \in {checkPersistKeyInStore(Client, getKvStoreKeyVals(PersistedKeys),
                                      getFailed, <<kDefaultArea>>, failed)} :
         /\ Handled(c)
         \* checkPersistKeyTimer_->scheduleTimeout(timeout)
         /\ checkPersistKeyTimer_' = ~c.thrown
         /\ StoreTakes(c.setRequests, failed)
  /\ UNCHANGED <<keyCallbacks_, kvCallback_, ttlSent>>

\* the KvStore loses a key: its ttl expired
ExpireKey(key) ==
  /\ kvStore_[key] # Missing
  /\ kvStore_' = [kvStore_ EXCEPT ![key] = Missing]
  /\ UNCHANGED <<sparkVars, rateVars, rttVars, storeVars, prefixVars,
                 mplsVars, shakeVars,
                 metricVars,
                 persistedKeyVals_, keyTtlBackoffs_, keysToAdvertise_,
                 backoffs_, keyCallbacks_, kvCallback_, invoked, setRequests,
                 ignored, kvAborted, advertiseKeyValsTimer_,
                 checkPersistKeyTimer_, ttlSent>>

\* another node writes the key
OtherSetsKey(key, value) ==
  /\ kvStore_' = IF accepted(kvStore_[key], value)
                   THEN [kvStore_ EXCEPT ![key] = value]
                   ELSE kvStore_
  /\ UNCHANGED <<sparkVars, rateVars, rttVars, storeVars, prefixVars,
                 mplsVars, shakeVars,
                 metricVars,
                 persistedKeyVals_, keyTtlBackoffs_, keysToAdvertise_,
                 backoffs_, keyCallbacks_, kvCallback_, invoked, setRequests,
                 ignored, kvAborted, advertiseKeyValsTimer_,
                 checkPersistKeyTimer_, ttlSent>>

InitPersistCheck ==
  /\ InitSparkIdle
  /\ InitRate /\ InitRtt /\ InitStore /\ InitPrefix /\ InitMpls
  /\ InitShake /\ InitMetric
  /\ InitKvClientWith(Some(1))

NextPersistCheck ==
  \/ \E key \in OwnKeys, value \in KvData, failed \in Failures :
       \* getKey reads the KvStore
       /\ PersistKey(key, value, FiniteTtl, kvStore_[key], <<kDefaultArea>>,
                     failed)
       /\ StoreTakes(persistKey(Client, key, value, FiniteTtl, kDefaultArea,
                                kvStore_[key], <<kDefaultArea>>, failed)
                       .setRequests, failed)
       /\ UNCHANGED <<ttlSent, checkPersistKeyTimer_>>
  \/ \E getFailed \in BOOLEAN, failed \in Failures :
       CheckPersistKeyTimer(getFailed, failed)
  \/ \E failed \in Failures :
       /\ AdvertiseKeyValsTimer(<<kDefaultArea>>, failed)
       /\ StoreTakes(advertisePendingKeys(Client, <<kDefaultArea>>, failed)
                       .setRequests, failed)
       /\ UNCHANGED <<ttlSent, checkPersistKeyTimer_>>
  \/ \E key \in OwnKeys :
       /\ BackoffElapses(key)
       /\ UNCHANGED <<ttlSent, checkVars>>
  \/ \E key \in OwnKeys : ExpireKey(key)
  \/ \E key \in OwnKeys :
       OtherSetsKey(key, createThriftValue(1, "node2", "a", kTtlInfinity, 0))

\* the timer fires when its period is over, and of its runs the reachable
\* KvStore answers one in the end
SpecPersistCheck ==
  /\ InitPersistCheck
  /\ [][NextPersistCheck]_vars
  /\ WF_vars(CheckPersistKeyTimer(FALSE, {}))

\* the key is persisted and the KvStore does not hold it
Disappeared(key) == Persisted(key) # Missing /\ kvStore_[key] = Missing

\* C30: with the periodic check enabled, every persisted key that is absent
\* from the KvStore at check time is advertised again with the cached
\* record, and the check timer is scheduled after every run, so a persisted
\* key that disappears from the store is restored in the end.
C30_DisappearedKeyIsRestored ==
  /\ [](checkPersistKeyTimer_ \/ kvAborted)
  /\ [](\A failed \in Failures :
          LET c == checkPersistKeyInStore(Client,
                                          getKvStoreKeyVals(PersistedKeys),
                                          FALSE, <<kDefaultArea>>, failed)
          IN  \/ c.thrown
              \/ \A key \in KvKeys :
                   Disappeared(key) =>
                     /\ c.persistedKeyVals[kDefaultArea][key] = Persisted(key)
                     /\ SetRequest(kDefaultArea, key, Persisted(key))
                          \in c.setRequests)
  /\ \A key \in OwnKeys :
       Disappeared(key) ~> (~Disappeared(key) \/ kvAborted)

\* the check found the persisted key lost, sent its record, and the KvStore
\* holds it again; the key is not pending and its backoff still allows a
\* try: neither persistKey nor advertisePendingKeys sent the record
C30_Witness ==
  /\ Persisted("k1") # Missing
  /\ kvStore_["k1"] = Persisted("k1")
  /\ SetRequest(kDefaultArea, "k1", Persisted("k1")) \in setRequests
  /\ "k1" \notin Pending
  /\ backoffs_["k1"] = Backoff(TRUE)
  /\ checkPersistKeyTimer_

(***************************************************************************)
(* The client used on two areas: a key is persisted, set, unset and        *)
(* cleared in each area on its own, publications arrive from either area,  *)
(* and the timers fire.  backoffs_ has one entry per key name.             *)
(***************************************************************************)
PersistKeyIn(area, key, value, ttl, maybeValue, areas, failed) ==
  /\ Handled(persistKey(Client, key, value, ttl, area, maybeValue, areas,
                        failed))
  /\ UNCHANGED <<keyCallbacks_, kvCallback_, ttlSent, checkVars>>

SetKeyIn(area, key, value, version, ttl, maybeValue) ==
  /\ Handled(setKey(Client, key, value, version, ttl, area, maybeValue))
  /\ UNCHANGED <<keyCallbacks_, kvCallback_, ttlSent, checkVars>>

UnsetKeyIn(area, key) ==
  /\ Handled(unsetKey(Client, key, area))
  /\ UNCHANGED <<keyCallbacks_, kvCallback_, ttlSent, checkVars>>

ClearKeyIn(area, key, keyValue, ttl, maybeValue) ==
  /\ Handled(clearKey(Client, key, keyValue, ttl, area, maybeValue))
  /\ UNCHANGED <<keyCallbacks_, kvCallback_, ttlSent, checkVars>>

\* time passes until the TTL of a key of the area is due for a refresh
TtlBackoffElapsesIn(area, key) ==
  /\ keyTtlBackoffs_[area][key] # Missing
  /\ ~keyTtlBackoffs_[area][key].canTryNow
  /\ Handled([Client EXCEPT !.keyTtlBackoffs[area][key].canTryNow = TRUE])
  /\ UNCHANGED <<keyCallbacks_, kvCallback_, ttlSent, checkVars>>

\* the publications of one record of another node for the key, per area
PublicationsIn(area) ==
  {Publication(area, keyVals, {}) :
     keyVals \in [{"k1"} -> {v \in RcvdValuesOfOther : v.value = "a"}]}

\* what getKey finds for a key that is cleared
ClearedValues == {Missing, createThriftValue(1, nodeId_, "a", FiniteTtl, 0)}
\* the ttl a key is persisted with, per area
TtlsIn(area) == IF area = kDefaultArea THEN Ttls ELSE {kTtlInfinity}

NextAreas ==
  \/ \E area \in KvAreas, key \in OwnKeys :
       \E ttl \in TtlsIn(area), areas \in Orders(KvAreas),
          failed \in {{}, {area}} :
         PersistKeyIn(area, key, "a", ttl, Missing, areas, failed)
  \/ \E key \in OwnKeys :
       SetKeyIn(kDefaultArea, key, "a", 1, FiniteTtl, Missing)
  \/ \E area \in KvAreas, key \in OwnKeys : UnsetKeyIn(area, key)
  \/ \E area \in KvAreas, key \in OwnKeys, maybeValue \in ClearedValues :
       ClearKeyIn(area, key, "b", FiniteTtl, maybeValue)
  \/ \E area \in KvAreas : \E publication \in PublicationsIn(area) :
       \E areas \in Orders(KvAreas) :
         /\ ProcessPublication(publication, areas, {})
         /\ UNCHANGED <<ttlSent, checkVars>>
  \/ \E areas \in Orders(KvAreas), failed \in SUBSET KvAreas :
       /\ AdvertiseKeyValsTimer(areas, failed)
       /\ UNCHANGED <<ttlSent, checkVars>>
  \/ TtlTimer /\ UNCHANGED <<ttlSent, checkVars>>
  \/ \E key \in OwnKeys : BackoffElapses(key) /\ UNCHANGED <<ttlSent, checkVars>>
  \/ \E key \in OwnKeys : TtlBackoffElapsesIn(kDefaultArea, key)

SpecAreas == InitKv /\ [][NextAreas]_vars

\* the client holds nothing for the key in the area
HoldsNothing(c, area, key) ==
  /\ c.persistedKeyVals[area][key] = Missing
  /\ c.backoffs[key] = Missing
  /\ c.keyTtlBackoffs[area][key] = Missing
  /\ key \notin c.keysToAdvertise[area]
\* the key is neither persisted, nor set with a ttl, nor pending in the area
NotHeld(c, area, key) ==
  /\ c.persistedKeyVals[area][key] = Missing
  /\ c.keyTtlBackoffs[area][key] = Missing
  /\ key \notin c.keysToAdvertise[area]
\* the handler handed nothing of the key of the area to the KvStore
SentNothingOf(c, area, key) ==
  \A r \in c.setRequests : ~(r.area = area /\ r.key = key)
\* what the handlers that neither set, persist nor clear the key of the
\* area make of the client: publications, the timers, and the calls for the
\* key in the other area
OtherHandlers(area, key) ==
  {processPublication(Client, publication, areas, failed) :
     publication \in PublicationsIn(kDefaultArea) \cup PublicationsIn("1"),
     areas \in Orders(KvAreas), failed \in SUBSET KvAreas}
    \cup {advertisePendingKeys(Client, areas, failed) :
            areas \in Orders(KvAreas), failed \in SUBSET KvAreas}
    \cup {advertiseTtlUpdates(Client)}
    \cup UNION {{persistKey(Client, key, "a", ttl, other, Missing, areas, {}) :
                   ttl \in Ttls, areas \in Orders(KvAreas)}
                  \cup {setKey(Client, key, "a", 1, FiniteTtl, other, Missing),
                        unsetKey(Client, key, other)}
                  \cup {clearKey(Client, key, "b", FiniteTtl, other, maybeValue) :
                          maybeValue \in ClearedValues} :
                  other \in KvAreas \ {area}}

\* C31: unsetKey(key, area) leaves no persisted record, backoff, TTL-refresh
\* entry or pending advertisement of the key in the area and hands nothing
\* to the KvStore; and as long as the key is not set, persisted or cleared
\* again in the area, no handler hands an advertisement or a TTL refresh of
\* the key of the area to the KvStore, nor takes the key up again.
C31_UnsetKeyEndsAdvertising ==
  /\ [](\A area \in KvAreas, key \in OwnKeys :
          /\ LET c == unsetKey(Client, key, area)
             IN  /\ HoldsNothing(c, area, key)
                 /\ c.setRequests = {}
                 /\ ~c.thrown
          /\ NotHeld(Client, area, key) =>
               \A c \in OtherHandlers(area, key) :
                 SentNothingOf(c, area, key) /\ NotHeld(c, area, key))
  /\ [][\A area \in KvAreas, key \in OwnKeys :
          NotHeld(Client, area, key) =>
            \/ SentNothingOf([setRequests |-> setRequests'], area, key)
            \/ SetKeyIn(area, key, "a", 1, FiniteTtl, Missing)
            \/ \E ttl \in Ttls, areas \in Orders(KvAreas), failed \in SUBSET KvAreas :
                 PersistKeyIn(area, key, "a", ttl, Missing, areas, failed)
            \/ \E maybeValue \in ClearedValues :
                 ClearKeyIn(area, key, "b", FiniteTtl, maybeValue)]_vars

\* the key is persisted in area "1" and was unset in the default area: its
\* backoff is gone with it and nothing was handed to the KvStore
C31_Witness ==
  /\ HoldsNothing(Client, kDefaultArea, "k1")
  /\ persistedKeyVals_["1"]["k1"] # Missing
  /\ setRequests = {}
  /\ ~kvAborted

\* the record clearKey writes over the one the KvStore holds
Cleared(maybeValue, keyValue, ttl) ==
  createThriftValue(maybeValue.version + 1, nodeId_, keyValue, ttl, 0)
\* the set requests of a clearKey that found maybeValue in the KvStore
ClearRequests(area, key, keyValue, ttl, maybeValue) ==
  IF maybeValue = Missing
    THEN {}
    ELSE {SetRequest(area, key, Cleared(maybeValue, keyValue, ttl))}
\* the TTL updates a handler handed to the KvStore for the key of the area
TtlUpdatesFor(c, area, key) ==
  {r \in TtlUpdatesOf(c.setRequests) : r.area = area /\ r.key = key}

\* C32: clearKey(key, value, ttl) drops the persisted record and the TTL
\* refresh of the key; when the KvStore holds the key it hands the KvStore
\* exactly one record, with the given value and ttl, the stored version
\* plus one, this node as originator and ttlVersion 0, and nothing when the
\* KvStore does not hold the key; afterwards neither the TTL timer nor a
\* publication nor the advertise timer sends a TTL update of the key, so
\* the record is left to its ttl.
C32_ClearKeyWritesLastRecord ==
  /\ [](\A area \in KvAreas, key \in OwnKeys :
          /\ \A maybeValue \in MaybeValues \cup ClearedValues,
                keyValue \in KvData, ttl \in Ttls :
               LET c == clearKey(Client, key, keyValue, ttl, area, maybeValue)
               IN  /\ HoldsNothing(c, area, key)
                   /\ c.setRequests =
                        ClearRequests(area, key, keyValue, ttl, maybeValue)
                   /\ TtlUpdatesFor(advertiseTtlUpdates(c), area, key) = {}
                   /\ ~c.thrown
          /\ NotHeld(Client, area, key) =>
               \A c \in OtherHandlers(area, key) :
                 TtlUpdatesFor(c, area, key) = {})
  /\ [][\A area \in KvAreas, key \in OwnKeys, maybeValue \in ClearedValues :
          ClearKeyIn(area, key, "b", FiniteTtl, maybeValue) =>
            /\ NotHeld(Client, area, key)'
            /\ setRequests' =
                 ClearRequests(area, key, "b", FiniteTtl, maybeValue)]_vars

\* the key was cleared in the default area while the KvStore held version 1
\* of it: version 2 with the value and the ttl of the call was handed over,
\* and the client holds nothing of the key
C32_Witness ==
  /\ setRequests =
       {SetRequest(kDefaultArea, "k1",
                   createThriftValue(2, nodeId_, "b", FiniteTtl, 0))}
  /\ HoldsNothing(Client, kDefaultArea, "k1")
  /\ ~kvAborted

\* every pending key of every area is persisted in the area
PendingKeysArePersisted ==
  \A area \in KvAreas : \A key \in keysToAdvertise_[area] :
    persistedKeyVals_[area][key] # Missing
\* every pending key of every area has a backoff
PendingKeysHaveBackoff ==
  \A area \in KvAreas : \A key \in keysToAdvertise_[area] :
    backoffs_[key] # Missing

\* C33: in every area every key pending advertisement has a persisted record
\* in the area and an advertisement backoff, and no lookup of
\* advertisePendingKeys fails, whatever was called for the key in another
\* area.
C33_PendingKeysCanBeAdvertised ==
  /\ PendingKeysArePersisted
  /\ PendingKeysHaveBackoff
  /\ ~kvAborted

\* the key is persisted and pending in the default area, its backoff went
\* with an unsetKey or clearKey of the key in area "1", and
\* advertisePendingKeys threw from backoffs_.at(key)
C33_LookupFails ==
  /\ "k1" \in keysToAdvertise_[kDefaultArea]
  /\ persistedKeyVals_[kDefaultArea]["k1"] # Missing
  /\ persistedKeyVals_["1"]["k1"] = Missing
  /\ backoffs_["k1"] = Missing
  /\ kvAborted

(***************************************************************************)
(* The stream of events of one (interface, neighbor) of one neighbor       *)
(* table.  A neighbor is up in its stream from its NEIGHBOR_UP to the      *)
(* following NEIGHBOR_DOWN; the tables keep this as isAdjacent (legacy)    *)
(* and as the states ESTABLISHED and RESTART (Spark2).                     *)
(***************************************************************************)
StreamTables == {"legacy", "spark2"}
\* whether the table holds the neighbor k = <<ifName, nodeName>> as up
IsUp(legacy, spark2, table, k) ==
  IF table = "legacy"
    THEN /\ Has(legacy, k[1])
         /\ Has(legacy[k[1]], k[2])
         /\ legacy[k[1]][k[2]].isAdjacent
    ELSE /\ Has(spark2, k[1])
         /\ Has(spark2[k[1]], k[2])
         /\ spark2[k[1]][k[2]].state \in {ESTABLISHED, RESTART}
UpBefore(table, k) == IsUp(neighbors_, spark2Neighbors_, table, k)
UpAfter(table, k) == IsUp(neighbors_', spark2Neighbors_', table, k)
\* the events of these types the step reports for the neighbor from the table
EventsOf(table, k, eventTypes) ==
  {e \in BagToSet(reported') :
     /\ e.table = table
     /\ e.ifName = k[1] /\ e.nodeName = k[2]
     /\ e.eventType \in eventTypes}

\* NEIGHBOR_UP is reported once for a neighbor that is not up and is up
\* afterwards, NEIGHBOR_DOWN once for a neighbor that is up and is not
\* afterwards, and a neighbor comes up or goes down with its event only
UpAndDownAlternate(table) ==
  \A k \in Ifaces \X Nodes :
    /\ \A e \in EventsOf(table, k, {NEIGHBOR_UP}) :
         /\ CopiesIn(e, reported') = 1
         /\ ~UpBefore(table, k) /\ UpAfter(table, k)
    /\ \A e \in EventsOf(table, k, {NEIGHBOR_DOWN}) :
         /\ CopiesIn(e, reported') = 1
         /\ UpBefore(table, k) /\ ~UpAfter(table, k)
    /\ (UpBefore(table, k) # UpAfter(table, k) /\ ~aborted') =>
         EventsOf(table, k, {NEIGHBOR_UP, NEIGHBOR_DOWN}) # {}

\* NEIGHBOR_RESTARTING and NEIGHBOR_RESTARTED are reported for a neighbor
\* that is up, and leave it up
RestartsWhileUp(table) ==
  \A k \in Ifaces \X Nodes :
    EventsOf(table, k, {NEIGHBOR_RESTARTING, NEIGHBOR_RESTARTED}) # {} =>
      UpBefore(table, k) /\ UpAfter(table, k)

LegacyUpAndDownAlternate == [][UpAndDownAlternate("legacy")]_vars
Spark2UpAndDownAlternate == [][UpAndDownAlternate("spark2")]_vars
LegacyRestartsWhileUp == [][RestartsWhileUp("legacy")]_vars
Spark2RestartsWhileUp == [][RestartsWhileUp("spark2")]_vars

\* C34: the events reported for an (interface, neighbor) form a well-formed
\* stream in both neighbor tables: it starts with NEIGHBOR_UP, NEIGHBOR_UP
\* and NEIGHBOR_DOWN alternate, and NEIGHBOR_RESTARTING and
\* NEIGHBOR_RESTARTED come between a NEIGHBOR_UP and the next NEIGHBOR_DOWN.
C34_EventStreamWellFormed ==
  [][\A table \in StreamTables :
       UpAndDownAlternate(table) /\ RestartsWhileUp(table)]_vars

\* NEIGHBOR_RESTARTING was reported for a legacy neighbor that is not
\* adjacent: no NEIGHBOR_UP is open in its stream
C34_RestartingWhileDown ==
  \E e \in Reported(NEIGHBOR_RESTARTING) :
    /\ e.table = "legacy"
    /\ ~neighbors_[e.ifName][e.nodeName].isAdjacent

\* the interfaces on which a received Spark2 message is processed
Spark2Ifaces ==
  IF enableSpark2_ /\ ~aborted /\ ~stopped THEN DOMAIN interfaceDb_ ELSE {}
\* no helloMsg makes processHelloMsg fail a CHECK: its calls of getNextState
\* have a next state and its RESTART branch is not reached
HelloMsgCompletes ==
  \A i \in Spark2Ifaces : \A pkt \in Hellos(Nodes, TRUE) :
    ~processHelloMsg(i, pkt).aborted
\* no handshake of a tracked neighbor makes processHandshakeMsg fail a CHECK
TrackedHandshakeCompletes ==
  \A i \in Spark2Ifaces : \A handshakeMsg \in Handshakes(Nodes) :
    Has(spark2Neighbors_[i], handshakeMsg.nodeName) =>
      ~processHandshakeMsg(i, handshakeMsg).aborted

\* C35: on a tracked interface, in every reachable state, the handler of
\* every Spark2 message (helloMsg, handshakeMsg, heartbeatMsg) completes
\* without a failed CHECK, a handshake of a node that is not tracked and a
\* heartbeat included.
C35_Spark2MessagesComplete ==
  \A i \in Spark2Ifaces :
    /\ \A pkt \in Hellos(Nodes, TRUE) : ~processHelloMsg(i, pkt).aborted
    /\ \A handshakeMsg \in Handshakes(Nodes) :
         ~processHandshakeMsg(i, handshakeMsg).aborted
    /\ ~processHeartbeatMsg.aborted

\* an interface is tracked, n1 is not among its Spark2 neighbors, and a
\* handshake of n1 fails the CHECK of processHandshakeMsg
C35_HandshakeOfUntrackedAborts ==
  /\ "if1" \in Spark2Ifaces
  /\ ~Has(spark2Neighbors_["if1"], "n1")
  /\ allocatedLabels_ # {}
  /\ \E handshakeMsg \in Handshakes({"n1"}) :
       processHandshakeMsg("if1", handshakeMsg).aborted

(***************************************************************************)
(* The handshake exchange between two Spark2 nodes on one link.  Each node *)
(* keeps an entry for the other one; a handshake one of them sends is      *)
(* received by the other.  enableV4_ and enableSubnetValidation_ are off,  *)
(* so a handshake never fails the subnet validation.                       *)
(***************************************************************************)
Peers == {"node1", "node2"}

PeerOf(node) == CHOOSE other \in Peers : other # node

\* the handshakes of the periodic negotiate timers that are in flight at
\* one time
MaxInFlight == 2

\* the answers counted
MaxAnswers == 4

\* a handshake message on its way to a node
Handshake(to, isAdjEstablished) ==
  [to |-> to, isAdjEstablished |-> isAdjEstablished]

\* sendHandshakeMsg of a node: the message goes to the other node
sendHandshakeMsg(node, isAdjEstablished) ==
  SetToBag({Handshake(PeerOf(node), isAdjEstablished)})

\* processHandshakeMsg of a neighbor in the given state: the handshake sent
\* in reply, if any, and the next state of the neighbor
processHandshakeOf(state, isAdjEstablished) ==
  [reply |-> IF ~isAdjEstablished THEN Some(state = ESTABLISHED) ELSE Missing,
   state |-> IF state # NEGOTIATE
               THEN state
               ELSE getNextState(state, HANDSHAKE_RCVD)]

\* a helloMsg with the node in its neighborInfos and an older sequence
\* number reaches a node whose neighbor is in WARM
HelloWithInfo(node) ==
  /\ ~quiet
  /\ nbrState[node] = WARM
  /\ nbrState' = [nbrState EXCEPT ![node] = getNextState(@, HELLO_RCVD_INFO)]
  /\ UNCHANGED <<wire, quiet, answers>>

\* the periodic negotiateTimer of a neighbor in NEGOTIATE fires
NegotiateTimerFires(node) ==
  /\ ~quiet
  /\ nbrState[node] = NEGOTIATE
  /\ BagCardinality(wire) < MaxInFlight
  /\ wire' = wire (+) sendHandshakeMsg(node, FALSE)
  /\ UNCHANGED <<nbrState, quiet, answers>>

\* the negotiateHoldTimer of a neighbor fires: processNegotiateTimeout
NegotiateHoldTimerFires(node) ==
  /\ ~quiet
  /\ nbrState[node] = NEGOTIATE
  /\ nbrState' =
       [nbrState EXCEPT ![node] = getNextState(@, NEGOTIATE_TIMER_EXPIRE)]
  /\ UNCHANGED <<wire, quiet, answers>>

\* from now on no hello packet arrives and no timer fires
Quiesce ==
  /\ ~quiet
  /\ quiet' = TRUE
  /\ UNCHANGED <<nbrState, wire, answers>>

\* a handshake in flight reaches its receiver
ReceiveHandshake(msg) ==
  /\ BagIn(msg, wire)
  /\ LET r == processHandshakeOf(nbrState[msg.to], msg.isAdjEstablished)
         rest == wire (-) SetToBag({msg})
     IN  /\ nbrState' = [nbrState EXCEPT ![msg.to] = r.state]
         /\ wire' = IF r.reply = Missing
                      THEN rest
                      ELSE rest (+) sendHandshakeMsg(msg.to, r.reply.value)
         /\ answers' = IF r.reply # Missing /\ quiet
                         THEN IF answers < MaxAnswers THEN answers + 1 ELSE answers
                         ELSE answers
  /\ UNCHANGED quiet

ReceiveSomeHandshake == \E msg \in BagToSet(wire) : ReceiveHandshake(msg)

\* both nodes have seen a hello of the other: the entries are in WARM
InitHandshake ==
  /\ InitSparkIdle
  /\ InitRate /\ InitRtt /\ InitKvClient /\ InitStore /\ InitPrefix /\ InitMpls
  /\ InitMetric
  /\ nbrState = [node \in Peers |-> WARM]
  /\ wire = EmptyBag
  /\ quiet = FALSE
  /\ answers = 0

NextHandshake ==
  /\ \/ \E node \in Peers : HelloWithInfo(node)
     \/ \E node \in Peers : NegotiateTimerFires(node)
     \/ \E node \in Peers : NegotiateHoldTimerFires(node)
     \/ Quiesce
     \/ ReceiveSomeHandshake
  /\ UNCHANGED <<sparkVars, rateVars, rttVars, kvVars, storeVars, prefixVars,
                 mplsVars, metricVars>>

\* the event loop of a node handles every packet that has arrived
SpecHandshake ==
  /\ InitHandshake
  /\ [][NextHandshake]_vars
  /\ WF_vars(ReceiveSomeHandshake /\ UNCHANGED <<sparkVars, rateVars, rttVars,
                 kvVars, storeVars, prefixVars, mplsVars, metricVars>>)

BothOutsideNegotiation == \A node \in Peers : nbrState[node] = WARM

UnansweredInFlight ==
  \E msg \in BagToSet(wire) : ~msg.isAdjEstablished

\* C36: once no hello arrives and no timer fires any more, the exchange of
\* handshakes between the two nodes ends: at some time no handshake is in
\* flight, whatever the states of the two neighbor entries
C36_HandshakeExchangeTerminates == quiet ~> (wire = EmptyBag)

\* the exchange ends when one of the two entries is in NEGOTIATE or in
\* ESTABLISHED, or when every handshake in flight says that the adjacency
\* is established
ExchangeOfNegotiatingTerminates ==
  (quiet /\ ~(BothOutsideNegotiation /\ UnansweredInFlight))
    ~> (wire = EmptyBag)

\* both entries in WARM answer a handshake with isAdjEstablished=false
\* with one more, again and again
C36_BothWarmAnswerEachOther ==
  /\ quiet
  /\ BothOutsideNegotiation
  /\ UnansweredInFlight
  /\ answers = MaxAnswers

(***************************************************************************)
(* MetricVectorUtils of Util.h: the comparison of two metric vectors.      *)
(***************************************************************************)
\* enum class CompareResult
WINNER == "WINNER"
TIE_WINNER == "TIE_WINNER"
TIE == "TIE"
TIE_LOOSER == "TIE_LOOSER"
LOOSER == "LOOSER"
ERROR == "ERROR"

CompareResults == {WINNER, TIE_WINNER, TIE, TIE_LOOSER, LOOSER, ERROR}

\* thrift::CompareType
WIN_IF_PRESENT == "WIN_IF_PRESENT"
WIN_IF_NOT_PRESENT == "WIN_IF_NOT_PRESENT"
IGNORE_IF_NOT_PRESENT == "IGNORE_IF_NOT_PRESENT"

CompareTypes == {WIN_IF_PRESENT, WIN_IF_NOT_PRESENT, IGNORE_IF_NOT_PRESENT}

\* the entities of a metric vector
MaxEntities == 2

MetricTypes == {1, 2}
Priorities == {1, 2}
Metrics == {<<1>>, <<2>>, <<1, 1>>}

createMetricEntity(type, priority, op, isBestPathTieBreaker, metric) ==
  [type |-> type, priority |-> priority, op |-> op,
   isBestPathTieBreaker |-> isBestPathTieBreaker, metric |-> metric]

MetricEntities ==
  {createMetricEntity(type, priority, op, isBestPathTieBreaker, metric) :
     type \in MetricTypes, priority \in Priorities, op \in CompareTypes,
     isBestPathTieBreaker \in BOOLEAN, metric \in Metrics}

MetricVectorsOf(versions, entities, len) ==
  {[version |-> version, metrics |-> metrics] :
     version \in versions,
     metrics \in UNION {[1 .. n -> entities] : n \in 0 .. len}}

\* operator! of a CompareResult
Negate(result) ==
  CASE result = WINNER -> LOOSER
    [] result = TIE_WINNER -> TIE_LOOSER
    [] result = TIE -> TIE
    [] result = TIE_LOOSER -> TIE_WINNER
    [] result = LOOSER -> WINNER
    [] result = ERROR -> ERROR

isDecisive(result) == result \in {WINNER, LOOSER, ERROR}

isSorted(mv) ==
  \A i \in 1 .. Len(mv.metrics) - 1 :
    ~(mv.metrics[i + 1].priority > mv.metrics[i].priority)

\* sortMetricVector sorts the entities in place in decreasing order of
\* priority, unless they are sorted; std::sort leaves the order of entities
\* of one priority open: every vector it may leave behind
sortMetricVector(mv) ==
  IF isSorted(mv)
    THEN {mv}
    ELSE {sorted \in
            {[mv EXCEPT !.metrics = [i \in DOMAIN @ |-> @[o[i]]]] :
               o \in Orders(DOMAIN mv.metrics)} :
            isSorted(sorted)}

RECURSIVE compareMetricsFrom(_, _, _, _)
compareMetricsFrom(l, r, i, tieBreaker) ==
  IF i > Len(l)
    THEN TIE
    ELSE IF l[i] > r[i]
      THEN IF tieBreaker THEN TIE_WINNER ELSE WINNER
      ELSE IF l[i] < r[i]
        THEN IF tieBreaker THEN TIE_LOOSER ELSE LOOSER
        ELSE compareMetricsFrom(l, r, i + 1, tieBreaker)

\* a faulty compareMetrics: a smaller metric loses, tie breaker or not
compareMetricsLoses(l, r, tieBreaker) ==
  IF Len(l) # Len(r)
    THEN ERROR
    ELSE LET c == compareMetricsFrom(l, r, 1, tieBreaker)
         IN  IF c = TIE_LOOSER THEN LOOSER ELSE c

compareMetrics(l, r, tieBreaker) ==
  IF Len(l) # Len(r) THEN ERROR ELSE compareMetricsFrom(l, r, 1, tieBreaker)

resultForLoner(entity) ==
  IF entity.op = WIN_IF_PRESENT
    THEN IF entity.isBestPathTieBreaker THEN TIE_WINNER ELSE WINNER
    ELSE IF entity.op = WIN_IF_NOT_PRESENT
      THEN IF entity.isBestPathTieBreaker THEN TIE_LOOSER ELSE LOOSER
      ELSE TIE

\* the new value of target
maybeUpdate(target, updated) ==
  IF isDecisive(updated) \/ target = TIE THEN updated ELSE target

\* the three loops of compareMetricVectors over the sorted entities, from
\* the positions lIter and rIter on
RECURSIVE compareFrom(_, _, _, _, _)
compareFrom(l, r, lIter, rIter, result) ==
  IF isDecisive(result)
    THEN result
    ELSE IF lIter <= Len(l) /\ rIter <= Len(r)
      THEN IF l[lIter].type = r[rIter].type
        THEN compareFrom(l, r, lIter + 1, rIter + 1,
               maybeUpdate(result,
                 IF l[lIter].isBestPathTieBreaker
                      # r[rIter].isBestPathTieBreaker
                   THEN ERROR
                   ELSE compareMetrics(l[lIter].metric, r[rIter].metric,
                                       l[lIter].isBestPathTieBreaker)))
        ELSE IF l[lIter].priority > r[rIter].priority
          THEN compareFrom(l, r, lIter + 1, rIter,
                 maybeUpdate(result, resultForLoner(l[lIter])))
          ELSE IF l[lIter].priority < r[rIter].priority
            THEN compareFrom(l, r, lIter, rIter + 1,
                   maybeUpdate(result, Negate(resultForLoner(r[rIter]))))
            ELSE compareFrom(l, r, lIter, rIter, maybeUpdate(result, ERROR))
      ELSE IF lIter <= Len(l)
        THEN compareFrom(l, r, lIter + 1, rIter,
               maybeUpdate(result, resultForLoner(l[lIter])))
        ELSE IF rIter <= Len(r)
          THEN compareFrom(l, r, lIter, rIter + 1,
                 maybeUpdate(result, Negate(resultForLoner(r[rIter]))))
          ELSE result

\* compareMetricVectors of two vectors that sortMetricVector has left as
\* they are: the result
compareMetricVectors(l, r) ==
  IF l.version # r.version
    THEN ERROR
    ELSE compareFrom(l.metrics, r.metrics, 1, 1, TIE)

\* compareMetricVectors(l, r): the result, and the two vectors as the call
\* leaves them
CompareMetricVectors(l, r) ==
  IF l.version # r.version
    THEN /\ compareResult' = ERROR
         /\ lVector' = l
         /\ rVector' = r
    ELSE \E lSorted \in sortMetricVector(l), rSorted \in sortMetricVector(r) :
           /\ compareResult' = compareMetricVectors(lSorted, rSorted)
           /\ lVector' = lSorted
           /\ rVector' = rSorted

\* the two vectors are compared
Compare ==
  /\ compareResult = None
  /\ CompareMetricVectors(lVector, rVector)

\* the two vectors are compared again, in the opposite order
CompareSwapped ==
  /\ compareResult # None
  /\ CompareMetricVectors(rVector, lVector)

\* the entities of the vector another one is compared with from the start
MaxOtherEntities == 1

\* the vectors a vector is compared with from the start, and one of
\* another version
OtherVectors ==
  MetricVectorsOf({1}, MetricEntities, MaxOtherEntities)
    \cup MetricVectorsOf({2}, MetricEntities, 0)

InitCompare ==
  /\ InitSparkIdle
  /\ InitRate /\ InitRtt /\ InitKvClient /\ InitStore /\ InitPrefix /\ InitMpls
  /\ InitShake
  /\ lVector \in MetricVectorsOf({1}, MetricEntities, MaxEntities)
  /\ rVector \in OtherVectors
  /\ compareResult = None

NextCompare ==
  /\ \/ Compare
     \/ CompareSwapped
  /\ UNCHANGED <<sparkVars, rateVars, rttVars, kvVars, storeVars, prefixVars,
                 mplsVars, shakeVars>>

SpecCompare == InitCompare /\ [][NextCompare]_vars

\* C37: compareMetricVectors(l, r) is the negation of
\* compareMetricVectors(r, l): the result of comparing two vectors in the
\* opposite order of the comparison before is the negation of its result
C37_CompareIsAntisymmetric ==
  [][CompareSwapped => compareResult' = Negate(compareResult)]_vars

\* the two orders of a pair have been compared, the second one with a
\* vector of two entities on the right, and an entity that breaks ties has
\* decided against the left one
C37_Witness ==
  /\ compareResult = TIE_LOOSER
  /\ Len(lVector.metrics) = 1
  /\ Len(rVector.metrics) = 2

====
